---------------------------- MODULE Spec2Model ----------------------------
(***************************************************************************)
(* A model of the Squawk slow VM's native core (slowvm/src):               *)
(*   - the debug breakpoint table and its fast-lookup array (vm/debug.c),  *)
(*   - the switch-event request queue of the EB40A channel tier            *)
(*     (rts/gcc-eb40a/eb40a-io.c),                                         *)
(*   - the native buffer registry (vm/squawk.c),                           *)
(*   - the copy-bytes channel operation and NVM protection (vm/cio.c),     *)
(*   - the layout of the memory buffer (vm/squawk.c),                      *)
(*   - the instruction decoder and the trace file (vm/trace.c),            *)
(*   - the output streams (vm/globals.h, vm/cio.c),                        *)
(*   - the frame walkers of the stack trace (vm/trace.c),                  *)
(*   - the fatal path and the runs started by an embedding host            *)
(*     (vm/util.h, vm/squawk.c),                                           *)
(*   - the flash loader of the EB40A board (rts/gcc-eb40a/os.c).           *)
(* Each subsystem has its own specification over the shared variables;     *)
(* the variables of the other subsystems keep their initial values.        *)
(***************************************************************************)
EXTENDS Integers, Sequences, FiniteSets, TLC

VARIABLES
    \* ---- process ------------------------------------------------------
    vmState,            \* "running" | "exited" (exit()) | "returned" (longjmp to host)
                        \* | "nested fatal" (fatalVMError called inside stopVM)
                        \* | "aborted" (a block freed twice)
    exitCode,           \* status passed to exit() / longjmp()
    isCalledFromJava,   \* Globals.isCalledFromJava
    inFatalVMError,     \* static flag of fatalVMError
    errlog,             \* diagnostics printed by the fatal paths, in order
    stopLog,            \* what the VM did on its way out, in order
    \* ---- vm/debug.c ---------------------------------------------------
    db_debug_enabled,
    db_bp_set,
    db_bp_table,        \* [0..DB_MAX_BPS-1 -> address], 0 = unset
    db_current_ips,     \* [0..DB_MAX_BPS -> address+1], 0-terminated
    dbState,            \* "boot" | "cmdloop" | "dispatch"
    code,               \* the byte at each code address, as its opcode class
    loc_hdr,            \* local hdr of db_process_client_commands
    loc_cmd,            \* local cmd of db_process_client_commands
    loopFrom,           \* the caller of the command loop in progress
    chk_i,              \* local i of db_checkBreak
    regs,               \* ip, fp and sp of Squawk_main
    fetches,            \* opcodes fetched so far
    fetchSlots,         \* the slots that held the address of the last opcode when it was fetched
    readyCount,         \* ready messages sent so far
    hits,               \* slot numbers of the hit notices sent for the fetched opcode
    leftBy,             \* how the last command loop ended: by a CONTINUE line
                        \* read from the client, or by a value left in cmd
    \* ---- rts/gcc-eb40a/eb40a-io.c --------------------------------------
    switchRequests,     \* the linked list, head first: <<[eventNumber, mask]>>
    retValue,
    switches,           \* the switches currently pressed (hardware input)
    svc_op,             \* java_lang_ServiceOperation_op
    svc_i1,             \* java_lang_ServiceOperation_i1
    svc_result,         \* java_lang_ServiceOperation_result
    ioPc,               \* "idle" | "waiting" (inside the WAITFOREVENT loop)
    polled,             \* what the last checkForEvents() call returned
    now,                \* getMilliseconds()
    target,             \* the deadline of the WAITFOREVENT in progress
    \* ---- vm/squawk.c buffer registry -------------------------------------
    Buffers,            \* [0..MAX_BUFFERS-1 -> address]
    BufferCount,
    overrun,            \* TRUE once a store went past the end of Buffers
    bufCall,            \* the last registry call: function, argument, what
                        \* valloc gave it, what it returned, the registered
                        \* buffers before it; for a freeBuffer of the buffer
                        \* the call before allocated, those before that call
    freeCalls,          \* number of freeBuffer calls made by native code so far
    \* ---- vm/cio.c copy bytes ---------------------------------------------
    nvmReadOnly,        \* page protection of [nvmStart, nvmEnd)
    romReadOnly,        \* page protection of [romStart, romEnd)
    cells,              \* contents of the modelled memory cells
    cheneyStartMemoryProtect,
    assumeBuild,        \* TRUE when the build defines ASSUME
    calls,              \* calls issued by the last channel operation, in order
    \* ---- vm/squawk.c memory layout ----------------------------------------
    layIn,              \* what setupMemory is given: its parameters, the page
                        \* size, the buffer valloc returns, the boot image
    layOut,             \* the globals setupMemory has set, <<>> before it ran
    \* ---- vm/trace.c instruction decoder ----------------------------------
    decIn,              \* the bytes at traceIP and the byte order of the build
    decOut,             \* the DecodedInstruction and the fetches made, <<>> before
    \* ---- vm/cio.c, vm/globals.h output streams ---------------------------
    streams,            \* [0..MAX_STREAMS-1 -> what the FILE pointer is]
    currentStream,
    symOpens,           \* fopen calls made for the symbols file so far
    \* ---- vm/trace.c trace file -------------------------------------------
    traceFileOpen,
    lastThreadID,
    traceOut,           \* the lines written to the trace file, in order
    macroize,           \* TRUE when the build defines MACROIZE
    \* ---- vm/trace.c frame walkers ----------------------------------------
    chain,              \* the frame chain that starts at fp
    walk,               \* the walker in progress: its function, who called
                        \* it, its traceFP, its counter, how it ended
    \* ---- vm/squawk.c, vm/util.h the way out ------------------------------
    stop,               \* the stopVM in progress: where it is, the locals of
                        \* its freeBuffer call, the fatalVMError calls that
                        \* have not returned, the signals delivered
    hostRuns,           \* the runs the embedding host has started
    \* ---- rts/gcc-eb40a/os.c flash loader ---------------------------------
    flashIn,            \* the mode, the bytes at 0x10A0000, what the loads return
    flashOut            \* how far main got, the loadAndFlashAt calls made and
                        \* what loadFlash returned

procVars == <<vmState, exitCode, isCalledFromJava, inFatalVMError, errlog, stopLog>>
dbVars   == <<db_debug_enabled, db_bp_set, db_bp_table, db_current_ips, dbState, code>>
ioVars   == <<switchRequests, retValue, switches, ioPc, polled, now, target>>
svcVars  == <<svc_op, svc_i1, svc_result>>
bufVars  == <<Buffers, BufferCount, overrun, bufCall, freeCalls>>
cioVars  == <<nvmReadOnly, romReadOnly, cells, cheneyStartMemoryProtect, assumeBuild, calls>>
layVars  == <<layIn, layOut>>
decVars  == <<decIn, decOut>>
outVars  == <<streams, currentStream, symOpens, traceFileOpen, lastThreadID, traceOut,
              macroize, chain, walk>>
runVars  == <<loc_hdr, loc_cmd, loopFrom, chk_i, regs, fetches, fetchSlots, readyCount,
              hits, leftBy>>
sysVars  == <<stop, hostRuns, flashIn, flashOut>>
vars     == <<procVars, dbVars, ioVars, svcVars, bufVars, cioVars, layVars, runVars,
              decVars, outVars, sysVars>>

-----------------------------------------------------------------------------
(* Program constants *)

DB_MAX_BPS == 20
MAX_BUFFERS == 10

(* Bounds of the model *)
MaxOpens == 2           \* fopen calls for the symbols file
MaxTrace == 3           \* calls are made while the trace file has fewer than MaxTrace + 2 lines
MaxThread == 1          \* thread numbers are 0..MaxThread
MaxChain == 2           \* short frame chains have 0..MaxChain frames
MaxNest == 3            \* fatalVMError calls in progress are counted up to this
MaxSignals == 1         \* signals delivered while the VM stops
MaxRuns == 4            \* the host starts at most this many runs

MaxAddr == 3          \* code addresses 0..MaxAddr can be named in a SET
NumLowSlots == 2      \* SET/CLEAR use slots 0..NumLowSlots-1 and the last slot
MaxSwitch == 2        \* switches 1..MaxSwitch
MaxRequests == 3      \* at most this many requests are left pending
MaxEvent == 3         \* no request is stored once the tail's number reached this
MaxClock == 2         \* the clock is observed at 0..MaxClock
MaxFreeCalls == 2     \* native code calls freeBuffer at most this often
NumFreePositions == 2 \* freeBuffer is tried on positions 0..NumFreePositions-1
                      \* and on the last position of the table
RegionCells == 2      \* memory cells modelled in each of NVM and RAM
MaxByte == 1          \* a cell holds 0..MaxByte
ExtraAddrs == 1       \* the host has MAX_BUFFERS + ExtraAddrs distinct blocks
MaxWait == 1          \* WAITFOREVENT is asked to wait 0..MaxWait ms
MaxSize == 3          \* -Xmx:, -Xmxnvm:, the boot image and argv take 0..MaxSize bytes
MaxPageLog == 2       \* the page size is 2^1 .. 2^MaxPageLog
MaxPages == 2         \* valloc returns page 1..MaxPages
MaxFetch == 2         \* the dispatch loop fetches at most this many opcodes
MaxFrame == 1         \* fp and sp take the values 0..MaxFrame
MaxInstr == 10        \* bytes given to the decoder at traceIP
NumSeeds == 3         \* operand byte patterns tried behind the first two bytes
IntBits == 2          \* an int has IntBits bits and a long long 2*IntBits,
                      \* standing for the 32 and 64 bits of the target

-----------------------------------------------------------------------------
(* Initial values shared by all specifications *)

NoStop ==
    [pc |-> "none", status |-> 0, buffer |-> 0, i |-> 0, insert |-> 0, calls |-> 0,
     signals |-> 0, freed |-> {}]
NoFlash == [updateVM |-> 0, mem |-> <<0, 0, 0, 0>>, loads |-> <<0, 0>>]
\* the board after reset, before main has looked at the switches
NotLoaded == [boot |-> "reset", calls |-> <<>>, result |-> 0]
SysIdle == stop = NoStop /\ hostRuns = 0 /\ flashIn = NoFlash /\ flashOut = NotLoaded

ProcInit ==
    /\ vmState = "running"
    /\ exitCode = 0
    /\ isCalledFromJava \in BOOLEAN
    /\ inFatalVMError = FALSE
    /\ errlog = <<>>
    /\ stopLog = <<>>

OpcodeClass == {"OPC_EXTEND", "OPC_EXTEND0", "other"}
CodeAddrs == 0..MaxAddr
BpSlots == 0..(DB_MAX_BPS - 1)
CmdSlots == (0..(NumLowSlots - 1)) \cup {DB_MAX_BPS - 1}

\* static storage: db_bp_table, db_current_ips and db_bp_set start zeroed
DbInit ==
    /\ db_debug_enabled \in BOOLEAN
    /\ db_bp_set = FALSE
    /\ db_bp_table = [i \in BpSlots |-> 0]
    /\ db_current_ips = [k \in 0..DB_MAX_BPS |-> 0]
    /\ dbState = "boot"
    /\ code \in [CodeAddrs -> OpcodeClass]


-----------------------------------------------------------------------------
(* vm/debug.c : breakpoint table and fast-lookup array *)

\* the table's non-zero addresses, in slot order
ActiveIps(table) ==
    SelectSeq([i \in 1..DB_MAX_BPS |-> table[i - 1]], LAMBDA a : a # 0)

\* a variant that fills the front of the array and leaves the rest as it was
db_regenerate_current_ips_keep_tail(table, old) ==
    LET act == ActiveIps(table)
    IN  [k \in 0..DB_MAX_BPS |->
            IF k < Len(act) THEN act[k + 1] + 1 ELSE old[k]]

\* db_regenerate_current_ips: the first loop stores ip+1 of every active slot
\* at j++, the second loop zeroes j..DB_MAX_BPS-1; index DB_MAX_BPS is not
\* written
db_regenerate_current_ips(table, old) ==
    LET act == ActiveIps(table)
    IN  [k \in 0..DB_MAX_BPS |->
            IF k < Len(act) THEN act[k + 1] + 1
            ELSE IF k < DB_MAX_BPS THEN 0
            ELSE old[k]]

\* a variant that stores the requested address as it is
BreakTarget_as_requested(addr) == addr

\* the address a SET command stores for a requested address
BreakTarget(addr) ==
    CASE code[addr] = "OPC_EXTEND"  -> addr + 2
      [] code[addr] = "OPC_EXTEND0" -> addr + 1
      [] OTHER                      -> addr

\* the value of an object: the one stored in it, or any value of its type
\* when nothing was stored in it since it was created
Resolve(v, values) == IF v = "indeterminate" THEN values ELSE {v}

\* Squawk_main up to db_prepare: ip is the VM entry point, no opcode fetched
RunInit ==
    /\ loc_hdr = "indeterminate"
    /\ loc_cmd = "indeterminate"
    /\ loopFrom = "none"
    /\ chk_i = 0
    /\ regs = [ip |-> 1, fp |-> 0, sp |-> 0]
    /\ fetches = 0
    /\ fetchSlots = {}
    /\ readyCount = 0
    /\ hits = <<>>
    /\ leftBy = "none"

\* db_checkBreak from index i of its while loop on, for the opcode fetched
\* in front of actual_ip: the next entry of db_current_ips equal to actual_ip
\* for which the for loop finds a slot of db_bp_table, and that slot
RECURSIVE NextHit(_, _, _, _)
NextHit(ips, table, i, actual_ip) ==
    IF i > DB_MAX_BPS \/ ips[i] = 0
    THEN [found |-> FALSE, slot |-> 0, i |-> i]
    ELSE LET slots == {j \in BpSlots : table[j] = actual_ip - 1}
         IN  IF ips[i] = actual_ip /\ slots # {}
             THEN [found |-> TRUE,
                   slot |-> CHOOSE j \in slots : \A k \in slots : j <= k,
                   i |-> i + 1]
             ELSE NextHit(ips, table, i + 1, actual_ip)

\* a variant whose for loop keeps the last slot that holds the address
CheckBreakFrom_last_slot(i, actual_ip) ==
    LET h == NextHit(db_current_ips, db_bp_table, i, actual_ip)
        slots == {j \in BpSlots : db_bp_table[j] = actual_ip - 1}
    IN  IF h.found
        THEN /\ hits' = Append(hits, CHOOSE j \in slots : \A k \in slots : j >= k)
             /\ chk_i' = h.i
             /\ loopFrom' = "db_checkBreak"
             /\ dbState' = "cmdloop"
        ELSE /\ dbState' = "execute"
             /\ loopFrom' = "none"
             /\ UNCHANGED <<hits, chk_i>>

\* db_checkBreak from index i on: a hit sends its notice and calls the
\* command loop, otherwise the opcode goes on to be traced and executed
CheckBreakFrom(i, actual_ip) ==
    LET h == NextHit(db_current_ips, db_bp_table, i, actual_ip)
    IN  IF h.found
        THEN /\ hits' = Append(hits, h.slot)
             /\ chk_i' = h.i
             /\ loopFrom' = "db_checkBreak"
             /\ dbState' = "cmdloop"
        ELSE /\ dbState' = "execute"
             /\ loopFrom' = "none"
             /\ UNCHANGED <<hits, chk_i>>

\* db_process_client_commands returns to its caller
LeaveLoop ==
    /\ loc_hdr' = "indeterminate"
    /\ loc_cmd' = "indeterminate"
    /\ IF loopFrom = "db_checkBreak"
       THEN CheckBreakFrom(chk_i, regs.ip)
       ELSE /\ dbState' = "dispatch"
            /\ loopFrom' = "none"
            /\ UNCHANGED <<hits, chk_i>>

\* exit(-1) after printf has written an error message of the debug protocol
ExitDirect ==
    /\ vmState' = "exited"
    /\ exitCode' = -1
    /\ stopLog' = <<"exit">>
    /\ UNCHANGED <<isCalledFromJava, inFatalVMError, errlog>>

\* db_prepare
DbPrepare ==
    /\ vmState = "running"
    /\ dbState = "boot"
    /\ IF db_debug_enabled
       THEN /\ db_bp_table' = [i \in BpSlots |-> 0]
            /\ db_current_ips' = [k \in 0..DB_MAX_BPS |-> 0]
            /\ db_bp_set' = FALSE
            /\ dbState' = "cmdloop"
            /\ readyCount' = readyCount + 1
            /\ loopFrom' = "db_prepare"
       ELSE /\ dbState' = "dispatch"
            /\ UNCHANGED <<db_bp_table, db_current_ips, db_bp_set, readyCount, loopFrom>>
    /\ UNCHANGED <<db_debug_enabled, code, procVars, ioVars, svcVars, bufVars, cioVars,
                   layVars, sysVars, decVars, outVars, loc_hdr, loc_cmd, chk_i, regs, fetches, fetchSlots, hits, leftBy>>

\* db_process_break_cmd, case 'S'
BreakSet(bpnum, addr) ==
    /\ vmState = "running"
    /\ dbState = "cmdloop"
    /\ bpnum >= 0 /\ bpnum < DB_MAX_BPS
    /\ LET table == [db_bp_table EXCEPT ![bpnum] = BreakTarget(addr)]
       IN  /\ db_bp_table' = table
           /\ db_bp_set' = TRUE
           /\ db_current_ips' = db_regenerate_current_ips(table, db_current_ips)
    /\ loc_hdr' = "*DEBUG*"
    /\ loc_cmd' = "B"
    /\ UNCHANGED <<db_debug_enabled, dbState, code, procVars, ioVars, svcVars, bufVars, cioVars,
                   layVars, sysVars, decVars, outVars, loopFrom, chk_i, regs, fetches, fetchSlots, readyCount, hits, leftBy>>

\* db_process_break_cmd, case 'C'
BreakClear(bpnum) ==
    /\ vmState = "running"
    /\ dbState = "cmdloop"
    /\ bpnum >= 0 /\ bpnum < DB_MAX_BPS
    /\ LET table == [db_bp_table EXCEPT ![bpnum] = 0]
       IN  /\ db_bp_table' = table
           /\ db_bp_set' = (\E i \in BpSlots : table[i] # 0)
           /\ db_current_ips' = db_regenerate_current_ips(table, db_current_ips)
    /\ loc_hdr' = "*DEBUG*"
    /\ loc_cmd' = "B"
    /\ UNCHANGED <<db_debug_enabled, dbState, code, procVars, ioVars, svcVars, bufVars, cioVars,
                   layVars, sysVars, decVars, outVars, loopFrom, chk_i, regs, fetches, fetchSlots, readyCount, hits, leftBy>>

\* db_process_client_commands, case 'C': leave the command loop
DbContinue ==
    /\ vmState = "running"
    /\ dbState = "cmdloop"
    /\ LeaveLoop
    /\ leftBy' = "CONTINUE"
    /\ UNCHANGED <<db_debug_enabled, db_bp_set, db_bp_table, db_current_ips, code,
                   procVars, ioVars, svcVars, bufVars, cioVars, layVars, sysVars, decVars, outVars,
                   regs, fetches, fetchSlots, readyCount>>


-----------------------------------------------------------------------------
(* rts/gcc-eb40a/eb40a-io.c : switch requests and the outer channel tier *)

ChannelConstants_RESULT_OK == 0
ChannelConstants_RESULT_EXCEPTION == -2
ChannelConstants_RESULT_BADPARAMETER == -3

Switches == 1..MaxSwitch
\* a switch mask, as the set of the switches whose bit is set: the masks of
\* one switch, and the mask of all the switches together
Masks == {{sw} : sw \in Switches} \cup {Switches}

IoInit ==
    /\ switchRequests = <<>>
    /\ retValue = 0
    /\ switches = {}
    /\ ioPc = "idle"
    /\ polled = 0
    /\ now = 0
    /\ target = 0

SvcInit ==
    /\ svc_op = "none"
    /\ svc_i1 = 0
    /\ svc_result = 0

\* sw_is_pressed of the board library: all switches of the mask are pressed
sw_is_pressed(mask) == mask \subseteq switches

\* a variant numbering by the length of the queue
storeSwitchRequest_by_length(queue, switchMask, mallocOk) ==
    IF ~mallocOk
    THEN [queue |-> queue, ret |-> ChannelConstants_RESULT_EXCEPTION]
    ELSE [queue |-> Append(queue, [eventNumber |-> Len(queue) + 1, mask |-> switchMask]),
          ret   |-> Len(queue) + 1]

\* a variant that links the new record in front of the list
storeSwitchRequest_at_head(queue, switchMask, mallocOk) ==
    IF ~mallocOk
    THEN [queue |-> queue, ret |-> ChannelConstants_RESULT_EXCEPTION]
    ELSE LET n == IF queue = <<>> THEN 1
                  ELSE queue[Len(queue)].eventNumber + 1
         IN  [queue |-> <<[eventNumber |-> n, mask |-> switchMask]>> \o queue,
              ret   |-> n]

\* a variant that numbers the first record of a list 0
storeSwitchRequest_from_zero(queue, switchMask, mallocOk) ==
    IF ~mallocOk
    THEN [queue |-> queue, ret |-> ChannelConstants_RESULT_EXCEPTION]
    ELSE LET n == IF queue = <<>> THEN 0
                  ELSE queue[Len(queue)].eventNumber + 1
         IN  [queue |-> Append(queue, [eventNumber |-> n, mask |-> switchMask]),
              ret   |-> n]

\* storeSwitchRequest: walks to the last record and numbers the new one
\* after it; a failed malloc stores nothing
storeSwitchRequest(queue, switchMask, mallocOk) ==
    IF ~mallocOk
    THEN [queue |-> queue, ret |-> ChannelConstants_RESULT_EXCEPTION]
    ELSE LET n == IF queue = <<>> THEN 1
                  ELSE queue[Len(queue)].eventNumber + 1
         IN  [queue |-> Append(queue, [eventNumber |-> n, mask |-> switchMask]),
              ret   |-> n]

\* the position of the first record at or after i whose mask is pressed,
\* 0 when the walk reaches the end of the list
RECURSIVE FirstPressed(_, _)
FirstPressed(queue, i) ==
    IF i > Len(queue) THEN 0
    ELSE IF sw_is_pressed(queue[i].mask) THEN i
    ELSE FirstPressed(queue, i + 1)

Unchain(queue, i) == SubSeq(queue, 1, i - 1) \o SubSeq(queue, i + 1, Len(queue))

\* a variant that unchains the found record whatever the flag says
getEventPrim_always_remove(queue, removeEventFlag) ==
    LET i == FirstPressed(queue, 1)
    IN  IF i = 0 THEN [res |-> 0, queue |-> queue]
        ELSE [res |-> queue[i].eventNumber, queue |-> Unchain(queue, i)]

\* a variant that always unchains the head of the list
getEventPrim_remove_head(queue, removeEventFlag) ==
    LET i == FirstPressed(queue, 1)
    IN  IF i = 0 THEN [res |-> 0, queue |-> queue]
        ELSE [res   |-> queue[i].eventNumber,
              queue |-> IF removeEventFlag THEN Tail(queue) ELSE queue]

\* getEventPrim
getEventPrim(queue, removeEventFlag) ==
    LET i == FirstPressed(queue, 1)
    IN  IF i = 0 THEN [res |-> 0, queue |-> queue]
        ELSE [res   |-> queue[i].eventNumber,
              queue |-> IF removeEventFlag THEN Unchain(queue, i) ELSE queue]

getEvent(queue) == getEventPrim(queue, TRUE)
checkForEvents(queue) == getEventPrim(queue, FALSE)

\* the hardware: a switch is pressed or released
SwitchChange(sw) ==
    /\ vmState = "running"
    /\ switches' = IF sw \in switches THEN switches \ {sw} ELSE switches \cup {sw}
    /\ UNCHANGED <<switchRequests, retValue, ioPc, polled, now, target,
                   procVars, dbVars, svcVars, bufVars, cioVars, layVars, sysVars, decVars, outVars, runVars>>

\* the hardware: the millisecond clock advances
Tick ==
    /\ vmState = "running"
    /\ now < MaxClock
    /\ now' = now + 1
    /\ UNCHANGED <<switchRequests, retValue, switches, ioPc, polled, target,
                   procVars, dbVars, svcVars, bufVars, cioVars, layVars, sysVars, decVars, outVars, runVars>>

\* ioExecute, case ChannelConstants_SW_READ
SwRead(mask, mallocOk) ==
    /\ vmState = "running"
    /\ ioPc = "idle"
    /\ \/ sw_is_pressed(mask)
       \/ ~mallocOk
       \/ /\ Len(switchRequests) < MaxRequests
          /\ IF switchRequests = <<>> THEN TRUE
             ELSE switchRequests[Len(switchRequests)].eventNumber < MaxEvent
    /\ svc_op' = "SW_READ"
    /\ svc_i1' = mask
    /\ IF sw_is_pressed(mask)
       THEN /\ svc_result' = 0
            /\ UNCHANGED switchRequests
       ELSE LET r == storeSwitchRequest(switchRequests, mask, mallocOk)
            IN  /\ svc_result' = r.ret
                /\ switchRequests' = r.queue
    /\ polled' = 0
    /\ UNCHANGED <<retValue, switches, ioPc, now, target,
                   procVars, dbVars, bufVars, cioVars, layVars, sysVars, decVars, outVars, runVars>>

\* ioExecute, case ChannelConstants_GLOBAL_GETEVENT
GetEvent ==
    /\ vmState = "running"
    /\ ioPc = "idle"
    /\ svc_op' = "GLOBAL_GETEVENT"
    /\ LET r == getEvent(switchRequests)
       IN  /\ svc_result' = r.res
           /\ switchRequests' = r.queue
    /\ polled' = 0
    /\ UNCHANGED <<svc_i1, retValue, switches, ioPc, now, target,
                   procVars, dbVars, bufVars, cioVars, layVars, sysVars, decVars, outVars, runVars>>

\* the widths of int and long long, scaled down to IntBits
WordModulus == 2 ^ IntBits
LongModulus == WordModulus * WordModulus
maxValue == (LongModulus \div 2) - 1          \* 0x7FFFFFFFFFFFFFFFLL
IntRange == (0 - (WordModulus \div 2))..((WordModulus \div 2) - 1)

\* a two's complement long long, from an integer
ToLong(v) ==
    LET u == v % LongModulus
    IN  IF u > maxValue THEN u - LongModulus ELSE u

\* (millisecondsToWait << 32) | ((unsigned long long)i2 & 0xFFFFFFFF)
MillisecondsToWait(i1, i2) == ToLong(i1 * WordModulus + (i2 % WordModulus))

\* getMilliseconds() reads one more than before: the clock is a long long
\* and counts up to the largest one
Advance ==
    /\ vmState = "running"
    /\ now < maxValue
    /\ now' = now + 1
    /\ UNCHANGED <<switchRequests, retValue, switches, ioPc, polled, target,
                   procVars, dbVars, svcVars, bufVars, cioVars, layVars, sysVars, decVars,
                   outVars, runVars>>

\* the sum of the clock and the requested wait is a long long
SumFits(clock, i1, i2) ==
    LET sum == clock + MillisecondsToWait(i1, i2)
    IN  sum >= 0 - maxValue - 1 /\ sum <= maxValue

\* a variant without the test for an overflowed sum
WaitTarget_wrapping(clock, i1, i2) == ToLong(clock + MillisecondsToWait(i1, i2))

\* the deadline computed at the head of case GLOBAL_WAITFOREVENT
WaitTarget(clock, i1, i2) ==
    LET t == ToLong(clock + MillisecondsToWait(i1, i2))
    IN  IF t <= 0 THEN maxValue ELSE t

\* ioExecute, case ChannelConstants_GLOBAL_WAITFOREVENT: up to the loop
WaitStart(i1, i2) ==
    /\ vmState = "running"
    /\ ioPc = "idle"
    /\ svc_op' = "GLOBAL_WAITFOREVENT"
    /\ svc_i1' = i1
    /\ svc_result' = ChannelConstants_RESULT_OK
    /\ target' = WaitTarget(now, i1, i2)
    /\ polled' = 0
    /\ ioPc' = "waiting"
    /\ UNCHANGED <<switchRequests, retValue, switches, now,
                   procVars, dbVars, bufVars, cioVars, layVars, sysVars, decVars, outVars, runVars>>

\* a variant whose loop also ends when the clock reads exactly the deadline
WaitPoll_at_deadline ==
    /\ vmState = "running"
    /\ ioPc = "waiting"
    /\ LET r == checkForEvents(switchRequests)
       IN  /\ polled' = r.res
           /\ switchRequests' = r.queue
           /\ IF r.res # 0 \/ now >= target
              THEN /\ ioPc' = "idle"
                   /\ svc_result' = 0
                   /\ target' = 0
              ELSE UNCHANGED <<ioPc, svc_result, target>>
    /\ UNCHANGED <<svc_op, svc_i1, retValue, switches, now,
                   procVars, dbVars, bufVars, cioVars, layVars, sysVars, decVars, outVars, runVars>>

\* one turn of the while (1) loop of case GLOBAL_WAITFOREVENT, and res = 0
\* when it breaks; target is a local of the case and is gone with it, polled
\* is what the last checkForEvents() of the call returned
WaitPoll ==
    /\ vmState = "running"
    /\ ioPc = "waiting"
    /\ LET r == checkForEvents(switchRequests)
       IN  /\ polled' = r.res
           /\ switchRequests' = r.queue
           /\ IF r.res # 0 \/ now > target
              THEN /\ ioPc' = "idle"
                   /\ svc_result' = 0
                   /\ target' = 0
              ELSE UNCHANGED <<ioPc, svc_result, target>>
    /\ UNCHANGED <<svc_op, svc_i1, retValue, switches, now,
                   procVars, dbVars, bufVars, cioVars, layVars, sysVars, decVars, outVars, runVars>>

-----------------------------------------------------------------------------
(* vm/util.h, vm/squawk.c : the fatal path *)

\* what fatalVMError writes to stderr
FatalLine(msg) ==
    IF inFatalVMError THEN <<"Recursive call to fatalVMError", msg>> ELSE <<msg>>

-----------------------------------------------------------------------------
(* vm/squawk.c : the buffer registry *)

\* block addresses handed out by the host; 0 is null
BlockAddrs == 1..(MAX_BUFFERS + ExtraAddrs)
FreePositions == 0..(NumFreePositions - 1)

BufInit ==
    /\ Buffers = [k \in 0..(MAX_BUFFERS - 1) |-> 0]
    /\ BufferCount = 0
    /\ overrun = FALSE
    /\ freeCalls = 0
    /\ bufCall = [fn |-> "none", arg |-> 0, got |-> 0, ret |-> 0, before |-> <<>>,
                  undoes |-> FALSE, origin |-> <<>>]

\* the registered buffers: Buffers[0 .. count-1]
Registered(bufs, count) == [k \in 1..count |-> bufs[k - 1]]

\* blocks the host can hand out: those it has not handed out already
FreeBlocks == BlockAddrs \ {Buffers[k] : k \in 0..(BufferCount - 1)}

\* a variant that lets a full table take one more entry
RegistryFull_off_by_one(count) == count > MAX_BUFFERS

\* the test "BufferCount >= MAX_BUFFERS" of newBuffer
RegistryFull(count) == count >= MAX_BUFFERS

\* a variant without the consistency test
freeBuffer_unchecked(bufs, count, buffer) ==
    LET kept == SelectSeq(Registered(bufs, count), LAMBDA b : b # buffer)
    IN  [Buffers |-> [k \in 0..(MAX_BUFFERS - 1) |->
                        IF k < Len(kept) THEN kept[k + 1] ELSE bufs[k]],
         freed   |-> count - Len(kept),
         fatal   |-> FALSE,
         BufferCount |-> Len(kept)]

\* freeBuffer up to its return or its call of fatalVMError: the loop moves
\* every entry other than 'buffer' down to Buffers[insert++] and calls free()
\* for each matching one; BufferCount is stored only when exactly one matched
freeBuffer(bufs, count, buffer) ==
    LET kept   == SelectSeq(Registered(bufs, count), LAMBDA b : b # buffer)
        insert == Len(kept)
    IN  [Buffers |-> [k \in 0..(MAX_BUFFERS - 1) |->
                        IF k < insert THEN kept[k + 1] ELSE bufs[k]],
         freed   |-> count - insert,
         fatal   |-> count # insert + 1,
         BufferCount |-> IF count # insert + 1 THEN count ELSE insert]

\* a variant that makes one pass of the loop: if (BufferCount != 0) ...
freeBuffers_one_pass(bufs, count) ==
    IF count = 0
    THEN [Buffers |-> bufs, BufferCount |-> 0, nested |-> FALSE, released |-> <<>>]
    ELSE LET r == freeBuffer(bufs, count, bufs[0])
         IN  [Buffers |-> r.Buffers, BufferCount |-> r.BufferCount, nested |-> r.fatal,
              released |-> [k \in 1..r.freed |-> bufs[0]]]

\* freeBuffers: while (BufferCount != 0) freeBuffer(Buffers[0]);
\* 'nested' tells that a freeBuffer call of the loop raised a fatal error,
\* 'released' lists the arguments of the free() calls made, in order
RECURSIVE freeBuffers(_, _)
freeBuffers(bufs, count) ==
    IF count = 0
    THEN [Buffers |-> bufs, BufferCount |-> 0, nested |-> FALSE, released |-> <<>>]
    ELSE LET r == freeBuffer(bufs, count, bufs[0])
             frees == [k \in 1..r.freed |-> bufs[0]]
         IN  IF r.fatal
             THEN [Buffers |-> r.Buffers, BufferCount |-> r.BufferCount, nested |-> TRUE,
                   released |-> frees]
             ELSE LET rest == freeBuffers(r.Buffers, r.BufferCount)
                  IN  [rest EXCEPT !.released = frees \o @]

\* what the caller of setjmp(vmStartScope) sees after longjmp(vmStartScope, c)
SetjmpValue(c) == IF c = 0 THEN 1 ELSE c

\* the calls of stopVM, in order; a fatal error inside freeBuffers ends them
StopSteps(nested) ==
    IF nested THEN <<"finalizeStreams", "freeBuffers", "fatalVMError">>
    ELSE <<"finalizeStreams", "freeBuffers">>
         \o (IF db_debug_enabled THEN <<"db_send_exit">> ELSE <<>>)
         \o (IF isCalledFromJava THEN <<"longjmp">> ELSE <<"exit">>)

\* a variant that reports every stop as a fatal error
StopVM_always_minus_one(status, bufs, count) ==
    LET r == freeBuffers(bufs, count)
    IN  /\ Buffers' = r.Buffers
        /\ BufferCount' = r.BufferCount
        /\ vmState' = IF isCalledFromJava THEN "returned" ELSE "exited"
        /\ exitCode' = -1
        /\ stopLog' = StopSteps(r.nested)

\* stopVM(status) entered with the registry (bufs, count): the streams are
\* flushed, the buffers released, the debugger is told, and the process exits
\* or control returns to the host
StopVM(status, bufs, count) ==
    LET r == freeBuffers(bufs, count)
    IN  /\ Buffers' = r.Buffers
        /\ BufferCount' = r.BufferCount
        /\ stopLog' = StopSteps(r.nested)
        /\ IF r.nested
           THEN /\ vmState' = "nested fatal"
                /\ exitCode' = exitCode
           ELSE IF isCalledFromJava
           THEN /\ vmState' = "returned"
                /\ exitCode' = SetjmpValue(status)
           ELSE /\ vmState' = "exited"
                /\ exitCode' = status

\* fatalVMError(msg) entered with the registry (bufs, count)
FatalVMError(msg, bufs, count) ==
    /\ errlog' = errlog \o FatalLine(msg)
    /\ inFatalVMError' = TRUE
    /\ StopVM(-1, bufs, count)

\* ---- the fatal path, one statement at a time ----
\* 'stop' follows the innermost stopVM(status): pc is "freeBuffers" at the
\* loop test of freeBuffers and "freeBuffer" inside the while loop of
\* freeBuffer, whose locals are buffer, i and insert; calls counts the fatalVMError calls that
\* have not returned (it stays at MaxNest once it got there, and the lines
\* of later calls are left out of errlog and stopLog), signals the signals
\* delivered, freed the blocks given to free()
Nested(n) == IF n < MaxNest THEN n + 1 ELSE MaxNest

\* fatalVMError up to the freeBuffers call of its stopVM(-1): the message is
\* printed, by its first call with a stack trace, and finalizeStreams has run
EnterFatal(msg, signalled) ==
    /\ errlog' = IF stop.calls < MaxNest THEN errlog \o FatalLine(msg) ELSE errlog
    /\ inFatalVMError' = TRUE
    /\ stopLog' = IF stop.calls < MaxNest THEN Append(stopLog, "finalizeStreams")
                  ELSE stopLog
    /\ stop' = [stop EXCEPT !.pc = "freeBuffers", !.status = 0 - 1, !.buffer = 0,
                            !.i = 0, !.insert = 0, !.calls = Nested(stop.calls),
                            !.signals = IF signalled THEN stop.signals + 1 ELSE stop.signals]

\* stopVM(status) called by the running VM, up to its freeBuffers call
EnterStopVM(status) ==
    /\ vmState = "running"
    /\ stop.pc = "none"
    /\ stopLog' = Append(stopLog, "finalizeStreams")
    /\ stop' = [stop EXCEPT !.pc = "freeBuffers", !.status = status]
    /\ UNCHANGED <<vmState, exitCode, isCalledFromJava, inFatalVMError, errlog, bufVars,
                   hostRuns, flashIn, flashOut, dbVars, ioVars, svcVars, cioVars, layVars,
                   decVars, outVars, runVars>>

\* a fatal error raised by the running VM
RaiseFatal ==
    /\ vmState = "running"
    /\ stop.pc = "none"
    /\ EnterFatal("fatal VM error", FALSE)
    /\ UNCHANGED <<vmState, exitCode, isCalledFromJava, bufVars, hostRuns, flashIn, flashOut,
                   dbVars, ioVars, svcVars, cioVars, layVars, decVars, outVars, runVars>>

\* signalHandler: SIGINT, SIGSEGV or SIGBUS delivered while stopVM is
\* releasing the buffers
Signal ==
    /\ vmState = "running"
    /\ stop.pc \in {"freeBuffers", "freeBuffer"}
    /\ stop.signals < MaxSignals
    /\ EnterFatal("signal", TRUE)
    /\ UNCHANGED <<vmState, exitCode, isCalledFromJava, bufVars, hostRuns, flashIn, flashOut,
                   dbVars, ioVars, svcVars, cioVars, layVars, decVars, outVars, runVars>>

\* the loop test of freeBuffers; behind the loop stopVM tells the debugger
\* and leaves by exit(status) or longjmp(vmStartScope, status)
FreeBuffersTest ==
    /\ vmState = "running"
    /\ stop.pc = "freeBuffers"
    /\ IF BufferCount # 0
       THEN /\ stop' = [stop EXCEPT !.pc = "freeBuffer", !.buffer = Buffers[0],
                                    !.i = 0, !.insert = 0]
            /\ UNCHANGED <<vmState, exitCode, stopLog>>
       ELSE /\ stop' = [stop EXCEPT !.pc = "none"]
            /\ stopLog' = stopLog \o <<"freeBuffers">>
                             \o (IF db_debug_enabled THEN <<"db_send_exit">> ELSE <<>>)
                             \o (IF isCalledFromJava THEN <<"longjmp">> ELSE <<"exit">>)
            /\ vmState' = IF isCalledFromJava THEN "returned" ELSE "exited"
            /\ exitCode' = IF isCalledFromJava THEN SetjmpValue(stop.status)
                           ELSE stop.status
    /\ UNCHANGED <<isCalledFromJava, inFatalVMError, errlog, bufVars, hostRuns, flashIn,
                   flashOut, dbVars, ioVars, svcVars, cioVars, layVars, decVars, outVars,
                   runVars>>

\* the test "BufferCount != insert + 1" of freeBuffer
FreeBufferFails(count, insert) == count # insert + 1

\* one pass through the while loop of freeBuffer, or behind the loop its
\* consistency test and its store into BufferCount.  free() of a block that
\* was freed before is undefined: it returns, or (aborts) it ends the process
FreeBufferStep(aborts) ==
    /\ vmState = "running"
    /\ stop.pc = "freeBuffer"
    /\ IF stop.i # BufferCount
       THEN IF Buffers[stop.i] = stop.buffer
            THEN /\ aborts => stop.buffer \in stop.freed
                 /\ stop' = [stop EXCEPT !.i = stop.i + 1,
                                         !.freed = stop.freed \cup {stop.buffer}]
                 /\ vmState' = IF aborts THEN "aborted" ELSE vmState
                 /\ UNCHANGED <<Buffers, BufferCount, inFatalVMError, errlog, stopLog>>
            ELSE /\ ~aborts
                 /\ Buffers' = [Buffers EXCEPT ![stop.insert] = Buffers[stop.i]]
                 /\ stop' = [stop EXCEPT !.i = stop.i + 1, !.insert = stop.insert + 1]
                 /\ UNCHANGED <<vmState, BufferCount, inFatalVMError, errlog, stopLog>>
       ELSE /\ ~aborts
            /\ IF FreeBufferFails(BufferCount, stop.insert)
               THEN /\ EnterFatal("buffer not in Buffers exactly once", FALSE)
                    /\ UNCHANGED <<vmState, Buffers, BufferCount>>
               ELSE /\ BufferCount' = stop.insert
                    /\ stop' = [stop EXCEPT !.pc = "freeBuffers"]
                    /\ UNCHANGED <<vmState, Buffers, inFatalVMError, errlog, stopLog>>
    /\ UNCHANGED <<exitCode, isCalledFromJava, overrun, bufCall, freeCalls, hostRuns, flashIn,
                   flashOut, dbVars, ioVars, svcVars, cioVars, layVars, decVars, outVars,
                   runVars>>

\* a store into Buffers[index]; a store past the end is recorded, not made
StoreAt(bufs, index, buffer) ==
    IF index < MAX_BUFFERS THEN [bufs EXCEPT ![index] = buffer] ELSE bufs

\* a variant that increments before it stores
RegisterBuffer_preincrement(bufs, count, buffer) ==
    [Buffers |-> StoreAt(bufs, count + 1, buffer),
     BufferCount |-> count + 1,
     past |-> count + 1 >= MAX_BUFFERS]

\* Buffers[BufferCount++] = buffer
RegisterBuffer(bufs, count, buffer) ==
    [Buffers |-> StoreAt(bufs, count, buffer),
     BufferCount |-> count + 1,
     past |-> count >= MAX_BUFFERS]

\* newBuffer(size, desc, fatalIfFail), 'buffer' being what valloc returned
NewBuffer(fatalIfFail, buffer) ==
    /\ vmState = "running"
    /\ buffer \in FreeBlocks \cup {0}
    /\ LET before == Registered(Buffers, BufferCount)
           call(ret) == [fn |-> "newBuffer", arg |-> fatalIfFail, got |-> buffer,
                         ret |-> ret, before |-> before, undoes |-> FALSE,
                         origin |-> <<>>]
       IN  IF buffer = 0
           THEN IF fatalIfFail
                THEN /\ errlog' = Append(errlog, "Failed to allocate buffer")
                     /\ StopVM(1, Buffers, BufferCount)
                     /\ bufCall' = call(0)
                     /\ UNCHANGED <<inFatalVMError, overrun>>
                ELSE /\ bufCall' = call(0)
                     /\ UNCHANGED <<Buffers, BufferCount, overrun, vmState, exitCode,
                                    inFatalVMError, errlog, stopLog>>
           ELSE IF RegistryFull(BufferCount)
           THEN /\ FatalVMError("exceeded MAX_BUFFERS allocations", Buffers, BufferCount)
                /\ bufCall' = call(0)
                /\ UNCHANGED overrun
           ELSE /\ LET r == RegisterBuffer(Buffers, BufferCount, buffer)
                   IN  /\ Buffers' = r.Buffers
                       /\ BufferCount' = r.BufferCount
                       /\ overrun' = (overrun \/ r.past)
                /\ bufCall' = call(buffer)
                /\ UNCHANGED <<vmState, exitCode, inFatalVMError, errlog, stopLog>>
    /\ UNCHANGED <<freeCalls, isCalledFromJava, dbVars, ioVars, svcVars, cioVars, layVars, sysVars, decVars, outVars,
                   runVars>>

\* freeBuffer(buffer)
FreeBuffer(buffer) ==
    /\ vmState = "running"
    /\ freeCalls < MaxFreeCalls
    /\ freeCalls' = freeCalls + 1
    /\ LET before == Registered(Buffers, BufferCount)
           undoes == /\ bufCall.fn = "newBuffer"
                     /\ bufCall.ret # 0
                     /\ bufCall.ret = buffer
           r      == freeBuffer(Buffers, BufferCount, buffer)
       IN  /\ bufCall' = [fn |-> "freeBuffer", arg |-> buffer, got |-> 0, ret |-> 0,
                          before |-> before, undoes |-> undoes,
                          origin |-> IF undoes THEN bufCall.before ELSE <<>>]
           /\ IF r.fatal
              THEN FatalVMError("buffer not in Buffers exactly once",
                                r.Buffers, r.BufferCount)
              ELSE /\ Buffers' = r.Buffers
                   /\ BufferCount' = r.BufferCount
                   /\ UNCHANGED <<vmState, exitCode, inFatalVMError, errlog, stopLog>>
    /\ UNCHANGED <<overrun, isCalledFromJava, dbVars, ioVars, svcVars, cioVars, layVars, sysVars, decVars, outVars,
                   runVars>>

-----------------------------------------------------------------------------
(* vm/cio.c : copy bytes *)

\* the modelled part of the memory buffer: NVM first, RAM behind it
java_lang_GC_nvmStart == 1
java_lang_GC_nvmEnd == java_lang_GC_nvmStart + RegionCells
java_lang_GC_ramStart == java_lang_GC_nvmEnd
java_lang_GC_ramEnd == java_lang_GC_ramStart + RegionCells
cheneyEndMemoryProtect == java_lang_GC_ramEnd
NvmCells == java_lang_GC_nvmStart..(java_lang_GC_nvmEnd - 1)
RamCells == java_lang_GC_ramStart..(java_lang_GC_ramEnd - 1)
Cells == NvmCells \cup RamCells
ByteValues == 0..MaxByte

\* after Squawk_setup: NVM and ROM are read-only, the buffer is zeroed
CioInit ==
    /\ nvmReadOnly = TRUE
    /\ romReadOnly = TRUE
    /\ cells = [a \in Cells |-> 0]
    /\ cheneyStartMemoryProtect = 0
    /\ assumeBuild = FALSE
    /\ calls = <<>>

\* toggleMemoryProtection on the NVM region: the protection the region has
\* afterwards; a failing mprotect is reported and changes nothing
toggleMemoryProtection(current, readonly, mprotectOk) ==
    IF mprotectOk THEN readonly ELSE current

\* the condition asserted by checkPostWrite(ea, size)
PostWriteOk(ea) ==
    \/ cheneyStartMemoryProtect = 0
    \/ ea < cheneyStartMemoryProtect
    \/ ea >= cheneyEndMemoryProtect

\* memmove(dst, src, lth) on the cells
Memmove(mem, dst, src, lth) ==
    [a \in Cells |-> IF a >= dst /\ a < dst + lth THEN mem[src + (a - dst)] ELSE mem[a]]

\* the collector sets or clears the range it guards against writes
CollectorGuards(start) ==
    /\ vmState = "running"
    /\ cheneyStartMemoryProtect' = start
    /\ UNCHANGED <<nvmReadOnly, romReadOnly, cells, assumeBuild, calls,
                   procVars, dbVars, ioVars, svcVars, bufVars, layVars, sysVars, decVars, outVars, runVars>>

\* cioExecute, case ChannelConstants_INTERNAL_COPYBYTES, with dst standing
\* for dst + dstoffset and src for src + srcoffset; unprotectOk and protectOk
\* tell whether the two mprotect calls succeed, partial whether a faulting
\* memmove stored the bytes in front of the fault
CopyBytes(lth, src, dst, i4, unprotectOk, protectOk, partial) ==
    LET nvmDst    == (i4 = 1)
        writable  == IF nvmDst
                     THEN ~toggleMemoryProtection(nvmReadOnly, FALSE, unprotectOk)
                     ELSE ~nvmReadOnly
        faults    == ~writable /\ \E a \in NvmCells : a >= dst /\ a < dst + lth
        moved     == Memmove(cells, dst, src, lth)
        before    == IF nvmDst THEN <<"unprotect NVM">> ELSE <<>>
    IN  /\ vmState = "running"
        /\ svc_op' = "INTERNAL_COPYBYTES"
        /\ IF faults
           THEN \* SIGSEGV inside memmove: signalHandler calls fatalVMError
                /\ calls' = before \o <<"memmove">>
                /\ nvmReadOnly' = ~writable
                /\ cells' = IF partial
                            THEN [a \in Cells |-> IF a \in NvmCells THEN cells[a] ELSE moved[a]]
                            ELSE cells
                /\ FatalVMError("Segmentation fault", Buffers, BufferCount)
           ELSE IF assumeBuild /\ ~PostWriteOk(dst)
           THEN \* the assume() of checkPostWrite fails
                /\ calls' = before \o <<"memmove">>
                /\ nvmReadOnly' = ~writable
                /\ cells' = moved
                /\ FatalVMError("", Buffers, BufferCount)
           ELSE /\ calls' = before \o <<"memmove">>
                               \o (IF nvmDst THEN <<"protect NVM">> ELSE <<>>)
                /\ nvmReadOnly' = IF nvmDst
                                  THEN toggleMemoryProtection(~writable, TRUE, protectOk)
                                  ELSE nvmReadOnly
                /\ cells' = moved
                /\ UNCHANGED <<procVars, Buffers, BufferCount>>
        /\ UNCHANGED <<isCalledFromJava, romReadOnly, cheneyStartMemoryProtect, assumeBuild,
                       svc_i1, svc_result, overrun, bufCall, freeCalls, dbVars, ioVars,
                       layVars, sysVars, decVars, outVars, runVars>>

-----------------------------------------------------------------------------
(* vm/debug.c, vm/squawk.c : the debugger's command loop and the dispatch loop *)

FrameValues == 0..MaxFrame

\* the slots the debugger of a run names in its commands
RunSlots == 0..(NumLowSlots - 1)

\* what the command loop does with the locals hdr and cmd it does not fill
\* in front of the reads, and with a line sscanf fills both from
Headers == {"*DEBUG*", "other"}
Commands == {"B", "C", "D", "?"}
ProtocolErrors ==
    {"ERROR - No data read",
     "ERROR - Debug cmd header not *DEBUG*",
     "ERROR - Debug cmd is not valid",
     "ERROR - Breakpoint number is not valid",
     "ERROR - Debug break cmd is not valid",
     "ERROR - Debug data set cmd is not implemented",
     "ERROR - Debug data subcmd is not valid",
     "ERROR - Debug data cmd is not valid"}

\* a line the command loop, db_process_break_cmd or db_process_data_cmd
\* rejects: no line at all, a first word that does not start with *DEBUG*,
\* an unknown command letter, a breakpoint number outside 0..DB_MAX_BPS-1,
\* an unknown B sub-command, and the D sub-commands that are not served
DbProtocolError(msg) ==
    /\ vmState = "running"
    /\ dbState = "cmdloop"
    /\ msg \in ProtocolErrors
    /\ ExitDirect
    /\ UNCHANGED <<dbVars, ioVars, svcVars, bufVars, cioVars, layVars, sysVars, decVars, outVars, runVars>>

\* db_process_data_cmd, case 'G' with 'S' or 'M': the state of the frame or
\* the words at the address are sent; faults tells that the read of the
\* frame or of the words raises a signal
DbDataGet(subsubcmd, faults) ==
    /\ vmState = "running"
    /\ dbState = "cmdloop"
    /\ loc_hdr' = "*DEBUG*"
    /\ loc_cmd' = "D"
    /\ IF faults
       THEN /\ FatalVMError("Segmentation fault", Buffers, BufferCount)
            /\ UNCHANGED isCalledFromJava
       ELSE UNCHANGED <<procVars, Buffers, BufferCount>>
    /\ UNCHANGED <<dbVars, ioVars, svcVars, overrun, bufCall, freeCalls, cioVars, layVars, sysVars, decVars, outVars,
                   loopFrom, chk_i, regs, fetches, fetchSlots, readyCount, hits, leftBy>>

\* db_process_break_cmd, case 'S' for an address that cannot be read: the
\* read of the byte at the address raises a signal
BreakSetFault(bpnum) ==
    /\ vmState = "running"
    /\ dbState = "cmdloop"
    /\ bpnum >= 0 /\ bpnum < DB_MAX_BPS
    /\ loc_hdr' = "*DEBUG*"
    /\ loc_cmd' = "B"
    /\ FatalVMError("Segmentation fault", Buffers, BufferCount)
    /\ UNCHANGED <<isCalledFromJava, dbVars, ioVars, svcVars, overrun, bufCall, freeCalls,
                   cioVars, layVars, sysVars, decVars, outVars,
                   loopFrom, chk_i, regs, fetches, fetchSlots, readyCount, hits, leftBy>>

\* the lines sscanf does not fill cmd from: "blank" has no word at all and
\* leaves hdr as well, "long header" starts with *DEBUG* followed by a
\* character other than ':', "no command" is the word *DEBUG* alone
UnparsedLines == {"blank", "long header", "no command"}

\* a pass of the command loop for such a line: strcmp and the switch read
\* what hdr and cmd hold, and db_process_break_cmd and db_process_data_cmd,
\* which find nothing to convert in the line either, read their own locals
\* subcmd, subsubcmd, bpnum and addr as they find them
DbUnparsedLine(line) ==
    /\ vmState = "running"
    /\ dbState = "cmdloop"
    /\ \E h \in (IF line = "blank" THEN Resolve(loc_hdr, Headers) ELSE {"*DEBUG*"}),
          c \in Resolve(loc_cmd, Commands) :
          IF h # "*DEBUG*"
          THEN DbProtocolError("ERROR - Debug cmd header not *DEBUG*")
          ELSE CASE c = "C" ->
                      /\ LeaveLoop
                      /\ leftBy' = line
                      /\ UNCHANGED <<db_debug_enabled, db_bp_set, db_bp_table,
                                     db_current_ips, code, procVars, ioVars, svcVars,
                                     bufVars, cioVars, layVars, sysVars, decVars, outVars, regs, fetches, fetchSlots, readyCount>>
                 [] c = "B" ->
                      \/ \E n \in RunSlots, a \in CodeAddrs : BreakSet(n, a)
                      \/ \E n \in RunSlots : BreakClear(n) \/ BreakSetFault(n)
                      \/ DbProtocolError("ERROR - Breakpoint number is not valid")
                      \/ DbProtocolError("ERROR - Debug break cmd is not valid")
                 [] c = "D" ->
                      \/ \E ss \in {"S", "M"}, f \in BOOLEAN : DbDataGet(ss, f)
                      \/ DbProtocolError("ERROR - Debug data set cmd is not implemented")
                      \/ DbProtocolError("ERROR - Debug data subcmd is not valid")
                      \/ DbProtocolError("ERROR - Debug data cmd is not valid")
                 [] OTHER -> DbProtocolError("ERROR - Debug cmd is not valid")

\* Squawk_main, the head of the dispatch loop: opcode = fetchUByte() and
\* db_checkBreak(opcode, ip, fp)
Fetch ==
    /\ vmState = "running"
    /\ dbState = "dispatch"
    /\ fetches < MaxFetch
    /\ fetches' = fetches + 1
    /\ fetchSlots' = IF db_debug_enabled
                     THEN {j \in BpSlots : db_bp_table[j] # 0 /\ db_bp_table[j] = regs.ip}
                     ELSE {}
    /\ regs' = [regs EXCEPT !.ip = regs.ip + 1]
    /\ IF db_debug_enabled /\ db_bp_set
       THEN LET h == NextHit(db_current_ips, db_bp_table, 0, regs.ip + 1)
            IN  IF h.found
                THEN /\ hits' = <<h.slot>>
                     /\ chk_i' = h.i
                     /\ loopFrom' = "db_checkBreak"
                     /\ dbState' = "cmdloop"
                ELSE /\ hits' = <<>>
                     /\ dbState' = "execute"
                     /\ UNCHANGED <<chk_i, loopFrom>>
       ELSE /\ hits' = <<>>
            /\ dbState' = "execute"
            /\ UNCHANGED <<chk_i, loopFrom>>
    /\ UNCHANGED <<db_debug_enabled, db_bp_set, db_bp_table, db_current_ips, code,
                   procVars, ioVars, svcVars, bufVars, cioVars, layVars, sysVars, decVars, outVars,
                   loc_hdr, loc_cmd, readyCount, leftBy>>

\* Squawk_main, the body of the dispatch loop: the fetched opcode is traced
\* and executed, which leaves ip, fp and sp at the next instruction
Execute(ip, fp, sp) ==
    /\ vmState = "running"
    /\ dbState = "execute"
    /\ regs' = [ip |-> ip, fp |-> fp, sp |-> sp]
    /\ dbState' = "dispatch"
    /\ fetchSlots' = {}
    /\ UNCHANGED <<db_debug_enabled, db_bp_set, db_bp_table, db_current_ips, code,
                   procVars, ioVars, svcVars, bufVars, cioVars, layVars, sysVars, decVars, outVars,
                   loc_hdr, loc_cmd, loopFrom, chk_i, fetches, readyCount, hits, leftBy>>

\* cioExecute, case ChannelConstants_INTERNAL_STOPVM, reached from the
\* executed opcode
ExecuteStopVM(i1) ==
    /\ vmState = "running"
    /\ dbState = "execute"
    /\ svc_op' = "INTERNAL_STOPVM"
    /\ svc_i1' = i1
    /\ StopVM(i1, Buffers, BufferCount)
    /\ UNCHANGED <<isCalledFromJava, inFatalVMError, errlog, overrun, bufCall, freeCalls,
                   svc_result, dbVars, ioVars, cioVars, layVars, sysVars, decVars, outVars, runVars>>

-----------------------------------------------------------------------------
(* vm/squawk.c : the layout of the memory buffer *)

SERVICE_CHUNK_SIZE == 4 * 1024
HDR_BYTES_PER_WORD == 4
TWOWORDS == HDR_BYTES_PER_WORD * 2
SERVICE_CHUNK_SIZE_MINUS2WORDS == SERVICE_CHUNK_SIZE - TWOWORDS

\* where the platform loader finds the ROM of a FLASH_MEMORY build: below or
\* above every buffer valloc can return
FlashAddrs == {0, 16 * 1024}

PageSizes == {2 ^ k : k \in 1..MaxPageLog}
Sizes == 0..MaxSize

\* a variant that rounds down
roundUp_truncating(value, alignment) == value - (value % alignment)

\* roundUp: (value + (alignment - 1)) & ~(alignment - 1); clearing the low
\* bits of a power of two takes the remainder off
roundUp(value, alignment) ==
    LET v == value + (alignment - 1)
    IN  v - (v % alignment)

\* the inputs of setupMemory: flash tells a FLASH_MEMORY build; memory is the
\* buffer valloc returns; fileSize the size of the boot image file; romStart
\* and romSize where the loader puts the ROM and how many bytes it takes
LayoutInputs ==
    {in \in [flash : BOOLEAN, pageSize : PageSizes, page : 1..MaxPages,
              fileSize : Sizes, romStart : FlashAddrs, romSize : Sizes,
              ramSize : Sizes, nvmSize : Sizes,
              argvTotalSize : Sizes, romFileNameSize : 1..2] :
        /\ in.flash => in.fileSize = 0
        /\ ~in.flash => in.romStart = 0 /\ in.romSize <= in.fileSize}

LayInit == layIn \in LayoutInputs /\ layOut = <<>>
LayIdle ==
    /\ layIn = [flash |-> FALSE, pageSize |-> 2, page |-> 1, fileSize |-> 0,
                romStart |-> 0, romSize |-> 0, ramSize |-> 0, nvmSize |-> 0,
                argvTotalSize |-> 0, romFileNameSize |-> 1]
    /\ layOut = <<>>

\* setupMemory(ramSize, nvmSize, argc, argv)
setupMemory(in) ==
    LET pageSize   == in.pageSize
        memory     == in.page * pageSize
        size0      == IF in.flash THEN 0 ELSE roundUp(in.fileSize, pageSize)
        size1      == roundUp(size0 + in.ramSize, pageSize)
        size2      == roundUp(size1 + in.nvmSize, pageSize)
        size3      == roundUp(size2 + SERVICE_CHUNK_SIZE, pageSize)
        memorySize == roundUp(size3 + in.argvTotalSize + in.romFileNameSize, pageSize)
        romStart   == IF in.flash THEN in.romStart ELSE memory
        romEnd     == romStart + in.romSize
        nvmStart   == IF in.flash THEN roundUp(memory, pageSize)
                                  ELSE roundUp(romEnd, pageSize)
        nvmEnd     == nvmStart + in.nvmSize
        ramStart   == roundUp(nvmEnd, pageSize)
        ramEnd     == ramStart + in.ramSize
        stack      == roundUp(ramEnd, pageSize) + TWOWORDS
        argv       == roundUp(stack + SERVICE_CHUNK_SIZE_MINUS2WORDS, pageSize)
        offset     == (argv - memory) + in.argvTotalSize + in.romFileNameSize
    IN  [memory |-> memory, memorySize |-> memorySize,
         memoryEnd |-> memory + memorySize,
         romStart |-> romStart, romEnd |-> romEnd,
         nvmStart |-> nvmStart, nvmEnd |-> nvmEnd,
         ramStart |-> ramStart, ramEnd |-> ramEnd,
         serviceStack |-> stack, argv |-> argv, offset |-> offset]

SetupMemory ==
    /\ vmState = "running"
    /\ layOut = <<>>
    /\ layOut' = setupMemory(layIn)
    /\ UNCHANGED <<layIn, sysVars, decVars, outVars, procVars, dbVars, ioVars, svcVars, bufVars, cioVars, runVars>>

-----------------------------------------------------------------------------
(* vm/cio.c, rts/gcc-eb40a/eb40a-io.c : the deferred result and the default cases *)

\* the words a peek can find at its address, as unsigned ints
Words == 0..(WordModulus - 1)
\* an unsigned int converted to int
ToInt(u) == IF u >= WordModulus \div 2 THEN u - WordModulus ELSE u

\* ioExecute, case ChannelConstants_PEEK for an address holding word; faults
\* tells that the read of the address raises a signal
Peek(word, faults) ==
    /\ vmState = "running"
    /\ ioPc = "idle"
    /\ svc_op' = "PEEK"
    /\ polled' = 0
    /\ IF faults
       THEN /\ FatalVMError("Segmentation fault", Buffers, BufferCount)
            /\ UNCHANGED <<isCalledFromJava, retValue, svc_result>>
       ELSE /\ retValue' = ToInt(word)
            /\ svc_result' = ChannelConstants_RESULT_OK
            /\ UNCHANGED <<procVars, Buffers, BufferCount>>
    /\ UNCHANGED <<svc_i1, switchRequests, switches, ioPc, now, target, overrun, bufCall,
                   freeCalls, dbVars, cioVars, layVars, sysVars, decVars, outVars, runVars>>

\* the operation codes of the three get-result cases of ioExecute
GetResultOps == {"CONTEXT_GETRESULT", "CONTEXT_GETRESULT_2", "CONTEXT_GETERROR"}
\* a get-result that hands the deferred result out and keeps it
GetResult_keeps(op) ==
    /\ vmState = "running"
    /\ ioPc = "idle"
    /\ op \in GetResultOps
    /\ svc_op' = op
    /\ svc_result' = retValue
    /\ polled' = 0
    /\ UNCHANGED <<svc_i1, switchRequests, retValue, switches, ioPc, now, target,
                   procVars, dbVars, bufVars, cioVars, layVars, sysVars, decVars, outVars, runVars>>

\* ioExecute, cases ChannelConstants_CONTEXT_GETRESULT,
\* ChannelConstants_CONTEXT_GETRESULT_2 and ChannelConstants_CONTEXT_GETERROR
GetResult(op) ==
    /\ vmState = "running"
    /\ ioPc = "idle"
    /\ op \in GetResultOps
    /\ svc_op' = op
    /\ svc_result' = retValue
    /\ retValue' = 0
    /\ polled' = 0
    /\ UNCHANGED <<svc_i1, switchRequests, switches, ioPc, now, target,
                   procVars, dbVars, bufVars, cioVars, layVars, sysVars, decVars, outVars, runVars>>

\* an unrecognised operation code handled as the get-result cases are
UnknownOp_as_get_result ==
    /\ vmState = "running"
    /\ ioPc = "idle"
    /\ svc_op' = "unrecognised"
    /\ svc_result' = retValue
    /\ retValue' = 0
    /\ polled' = 0
    /\ UNCHANGED <<svc_i1, switchRequests, switches, ioPc, now, target,
                   procVars, dbVars, bufVars, cioVars, layVars, sysVars, decVars, outVars, runVars>>

\* an operation code that has no case in cioExecute and none in ioExecute:
\* the default of cioExecute calls ioExecute, whose default sets res
UnknownOp ==
    /\ vmState = "running"
    /\ ioPc = "idle"
    /\ svc_op' = "unrecognised"
    /\ svc_result' = ChannelConstants_RESULT_BADPARAMETER
    /\ polled' = 0
    /\ UNCHANGED <<svc_i1, switchRequests, retValue, switches, ioPc, now, target,
                   procVars, dbVars, bufVars, cioVars, layVars, sysVars, decVars, outVars, runVars>>

-----------------------------------------------------------------------------
(* vm/trace.c : the instruction decoder of the tracer *)

\* the opcode numbers decodeInstruction names; the generated header that
\* assigns them is not part of the sources, the decoder depends on their
\* being distinct bytes and on the two operand ranges only
OPC_CONST_BYTE == 16
OPC_CONST_SHORT == 17
OPC_CONST_CHAR == 18
OPC_CONST_INT == 19
OPC_CONST_LONG == 20
OPC_FIRST_PARM_BYTECODE == 32
OPC_PARM_BYTECODE_COUNT == 4
OPC_WIDE_M1 == 64
OPC_WIDE_0 == 65
OPC_WIDE_1 == 66
OPC_WIDE_SHORT == 67
OPC_WIDE_INT == 68
OPC_ESCAPE == 69
OPC_ESCAPE_WIDE_M1 == 70
OPC_ESCAPE_WIDE_0 == 71
OPC_ESCAPE_WIDE_1 == 72
OPC_ESCAPE_WIDE_SHORT == 73
OPC_ESCAPE_WIDE_INT == 74
OPC_CONST_FLOAT == 256 + 1
OPC_CONST_DOUBLE == 256 + 2
OPC_FIRST_ESCAPE_PARM_BYTECODE == 256 + 8
OPC_ESCAPE_PARM_BYTECODE_COUNT == 2

\* the first bytes tried: every opcode the decoder names, the ends of the
\* plain operand range and its neighbours, and opcodes it does not name
FirstBytes ==
    {0, 255} \cup (OPC_CONST_BYTE..OPC_CONST_LONG) \cup (OPC_WIDE_M1..OPC_ESCAPE_WIDE_INT)
    \cup ((OPC_FIRST_PARM_BYTECODE - 1)..(OPC_FIRST_PARM_BYTECODE + OPC_PARM_BYTECODE_COUNT))
\* the second bytes tried: the escape opcodes the decoder names, less 256,
\* the ends of the escape operand range and its neighbours, a plain operand
\* opcode, and bytes with the top bit clear and set
SecondBytes ==
    {0, OPC_CONST_FLOAT - 256, OPC_CONST_DOUBLE - 256, OPC_FIRST_PARM_BYTECODE, 5, 128, 255}
    \cup ((OPC_FIRST_ESCAPE_PARM_BYTECODE - 257)
            ..(OPC_FIRST_ESCAPE_PARM_BYTECODE - 256 + OPC_ESCAPE_PARM_BYTECODE_COUNT))
\* the third byte tried; the bytes after it follow it in steps of ByteStep
Seeds == {(5 + 123 * k) % 256 : k \in 0..(NumSeeds - 1)}
ByteStep == 17

\* the bytes at traceIP: the longest instruction has ten of them
CodeBytes(b0, b1, seed) ==
    [k \in 1..MaxInstr |->
        IF k = 1 THEN b0 ELSE IF k = 2 THEN b1 ELSE (seed + ByteStep * (k - 3)) % 256]
DecodeInputs ==
    {[bytes |-> CodeBytes(b0, b1, seed), bigEndian |-> e] :
        b0 \in FirstBytes, b1 \in SecondBytes, seed \in Seeds, e \in BOOLEAN}

DecInit == decIn \in DecodeInputs /\ decOut = <<>>
DecIdle ==
    /\ decIn = [bytes |-> CodeBytes(0, 0, 0), bigEndian |-> TRUE]
    /\ decOut = <<>>

\* a byte as a signed char
SignedByte(b) == IF b >= 128 THEN b - 256 ELSE b

\* a variant that assembles the bytes in stream order on every build
StreamBytes_stream_order(in, at, n) ==
    [k \in 1..n |-> in.bytes[at + k]]
\* the n bytes at offset at, most significant first in the build's byte order
StreamBytes(in, at, n) ==
    [k \in 1..n |-> IF in.bigEndian THEN in.bytes[at + k] ELSE in.bytes[at + n + 1 - k]]

\* the int whose two's complement bytes, most significant first, are b
RECURSIVE UnsignedOf(_)
UnsignedOf(b) == IF Len(b) = 0 THEN 0 ELSE 256 * UnsignedOf(SubSeq(b, 1, Len(b) - 1)) + b[Len(b)]
SignedOf(b) == 256 * UnsignedOf(<<SignedByte(b[1])>> \o SubSeq(b, 2, Len(b) - 1)) + b[Len(b)]

\* the fetch macros: each reads at ip and moves ip past what it read.  A
\* fetch is the value, the new ip, and a note of what was read where
fetchUByte(in, ip, what) ==
    [v |-> in.bytes[ip + 1], ip |-> ip + 1, note |-> [what |-> what, at |-> ip, n |-> 1]]
fetchByte(in, ip, what) ==
    [v |-> SignedByte(in.bytes[ip + 1]), ip |-> ip + 1,
     note |-> [what |-> what, at |-> ip, n |-> 1]]
\* a variant that reads its operand from one byte
fetchShort_one_byte(in, ip) ==
    [v |-> SignedByte(in.bytes[ip + 1]), ip |-> ip + 1,
     note |-> [what |-> "operand", at |-> ip, n |-> 1]]
fetchShort(in, ip) ==
    [v |-> SignedOf(StreamBytes(in, ip, 2)), ip |-> ip + 2,
     note |-> [what |-> "operand", at |-> ip, n |-> 2]]
fetchUShort(in, ip) ==
    [v |-> UnsignedOf(StreamBytes(in, ip, 2)), ip |-> ip + 2,
     note |-> [what |-> "operand", at |-> ip, n |-> 2]]
fetchInt(in, ip) ==
    [v |-> SignedOf(StreamBytes(in, ip, 4)), ip |-> ip + 4,
     note |-> [what |-> "operand", at |-> ip, n |-> 4]]
\* a jlong is kept as its eight bytes, most significant first
fetchLong(in, ip) ==
    [v |-> StreamBytes(in, ip, 8), ip |-> ip + 8,
     note |-> [what |-> "operand", at |-> ip, n |-> 8]]

\* 0xFFFFFF00 | b and 0x100 | b for a byte b, as ints
OrFFFFFF00(b) == b - 256
Or100(b) == 256 + b

\* the DecodedInstruction, the final ip, and the fetches in the order made;
\* the member of the operand union that was not stored is "unset"
Decoded(tag, prefix, opcode, i, l, ip, trail) ==
    [tag |-> tag, prefix |-> prefix, opcode |-> opcode, i |-> i, l |-> l,
     ip |-> ip, trail |-> trail]

\* case OPC_WIDE_M1, OPC_WIDE_0, OPC_WIDE_1 and their ESCAPE_ forms: the
\* opcode byte, plus bias, and then the byte the operand is made of
decodeWideByte(in, f0, bias) ==
    LET f1 == fetchUByte(in, f0.ip, "opcode")
        f2 == fetchUByte(in, f1.ip, "operand")
        operand == CASE f0.v \in {OPC_WIDE_M1, OPC_ESCAPE_WIDE_M1} -> OrFFFFFF00(f2.v)
                     [] f0.v \in {OPC_WIDE_1, OPC_ESCAPE_WIDE_1} -> Or100(f2.v)
                     [] OTHER -> f2.v
    IN  Decoded(1, f0.v, f1.v + bias, operand, "unset", f2.ip,
                <<f0.note, f1.note, f2.note>>)

\* case OPC_WIDE_SHORT, OPC_WIDE_INT and their ESCAPE_ forms: the operand
\* fp fetched, and then the opcode byte, plus bias
decodeWideParm(in, f0, bias, fp) ==
    LET f2 == fetchUByte(in, fp.ip, "opcode")
    IN  Decoded(1, f0.v, f2.v + bias, fp.v, "unset", f2.ip, <<f0.note, fp.note, f2.note>>)

\* case OPC_ESCAPE
decodeEscape(in, f0) ==
    LET f1 == fetchUByte(in, f0.ip, "opcode")
        eopcode == f1.v + 256
    IN  CASE eopcode = OPC_CONST_FLOAT ->
                LET fp == fetchInt(in, f1.ip)
                IN  Decoded(3, -1, eopcode, fp.v, "unset", fp.ip, <<f0.note, f1.note, fp.note>>)
          [] eopcode = OPC_CONST_DOUBLE ->
                LET fp == fetchLong(in, f1.ip)
                IN  Decoded(4, -1, eopcode, "unset", fp.v, fp.ip, <<f0.note, f1.note, fp.note>>)
          [] OTHER ->
                IF /\ eopcode >= OPC_FIRST_ESCAPE_PARM_BYTECODE
                   /\ eopcode < OPC_FIRST_ESCAPE_PARM_BYTECODE + OPC_ESCAPE_PARM_BYTECODE_COUNT
                THEN LET f2 == fetchUByte(in, f1.ip, "operand")
                     IN  Decoded(1, f0.v, eopcode, f2.v, "unset", f2.ip,
                                 <<f0.note, f1.note, f2.note>>)
                ELSE Decoded(0, f0.v, eopcode, "unset", "unset", f1.ip, <<f0.note, f1.note>>)

PrefixOpcodes == OPC_WIDE_M1..OPC_ESCAPE_WIDE_INT

\* decodeInstruction(instruction, traceIP) for the bytes at traceIP
decodeInstruction(in) ==
    LET opcode == in.bytes[1]
        f0 == fetchUByte(in, 0, IF opcode \in PrefixOpcodes THEN "prefix" ELSE "opcode")
    IN  CASE opcode = OPC_WIDE_M1 -> decodeWideByte(in, f0, 0)
          [] opcode = OPC_WIDE_0 -> decodeWideByte(in, f0, 0)
          [] opcode = OPC_WIDE_1 -> decodeWideByte(in, f0, 0)
          [] opcode = OPC_WIDE_SHORT -> decodeWideParm(in, f0, 0, fetchShort(in, f0.ip))
          [] opcode = OPC_WIDE_INT -> decodeWideParm(in, f0, 0, fetchInt(in, f0.ip))
          [] opcode = OPC_ESCAPE -> decodeEscape(in, f0)
          [] opcode = OPC_ESCAPE_WIDE_M1 -> decodeWideByte(in, f0, 256)
          [] opcode = OPC_ESCAPE_WIDE_0 -> decodeWideByte(in, f0, 256)
          [] opcode = OPC_ESCAPE_WIDE_1 -> decodeWideByte(in, f0, 256)
          [] opcode = OPC_ESCAPE_WIDE_SHORT -> decodeWideParm(in, f0, 256, fetchShort(in, f0.ip))
          [] opcode = OPC_ESCAPE_WIDE_INT -> decodeWideParm(in, f0, 256, fetchInt(in, f0.ip))
          [] opcode = OPC_CONST_BYTE ->
                LET fp == fetchByte(in, f0.ip, "operand")
                IN  Decoded(1, -1, opcode, fp.v, "unset", fp.ip, <<f0.note, fp.note>>)
          [] opcode = OPC_CONST_SHORT ->
                LET fp == fetchShort(in, f0.ip)
                IN  Decoded(1, -1, opcode, fp.v, "unset", fp.ip, <<f0.note, fp.note>>)
          [] opcode = OPC_CONST_CHAR ->
                LET fp == fetchUShort(in, f0.ip)
                IN  Decoded(1, -1, opcode, fp.v, "unset", fp.ip, <<f0.note, fp.note>>)
          [] opcode = OPC_CONST_INT ->
                LET fp == fetchInt(in, f0.ip)
                IN  Decoded(1, -1, opcode, fp.v, "unset", fp.ip, <<f0.note, fp.note>>)
          [] opcode = OPC_CONST_LONG ->
                LET fp == fetchLong(in, f0.ip)
                IN  Decoded(2, -1, opcode, "unset", fp.v, fp.ip, <<f0.note, fp.note>>)
          [] OTHER ->
                IF /\ opcode >= OPC_FIRST_PARM_BYTECODE
                   /\ opcode < OPC_FIRST_PARM_BYTECODE + OPC_PARM_BYTECODE_COUNT
                THEN LET fp == fetchByte(in, f0.ip, "operand")
                     IN  Decoded(1, -1, opcode, fp.v, "unset", fp.ip, <<f0.note, fp.note>>)
                ELSE Decoded(0, -1, opcode, "unset", "unset", f0.ip, <<f0.note>>)

\* trace() decodes the instruction at traceIP
DecodeInstruction ==
    /\ decOut = <<>>
    /\ decOut' = decodeInstruction(decIn)
    /\ UNCHANGED <<decIn, procVars, dbVars, ioVars, svcVars, bufVars, cioVars, layVars, sysVars,
                   runVars, outVars>>

-----------------------------------------------------------------------------
(* vm/globals.h, vm/cio.c : the output streams *)

MAX_STREAMS == 4
\* the stream numbers of java.lang.VM
java_lang_VM_STREAM_STDOUT == 0
java_lang_VM_STREAM_STDERR == 1
java_lang_VM_STREAM_SYMBOLS == 2

StreamSlots == 0..(MAX_STREAMS - 1)

\* initializeGlobals: the globals are zeroed, then the two standard streams
\* are entered and stderr is made current
StreamInit ==
    /\ streams = [i \in StreamSlots |->
                     CASE i = java_lang_VM_STREAM_STDOUT -> "stdout"
                       [] i = java_lang_VM_STREAM_STDERR -> "stderr"
                       [] OTHER -> "null"]
    /\ currentStream = java_lang_VM_STREAM_STDERR
    /\ symOpens = 0

\* the arguments tried: every stream number and the numbers next to them
StreamArgs == (0 - 1)..MAX_STREAMS
\* what a read of streams[i] with i outside the array can find
Beyond == {"null", "wild"}

\* cioExecute, case ChannelConstants_INTERNAL_SETSTREAM with i1; fopenOk
\* tells whether fopen succeeds, beyond what the read of streams[i1] finds
\* when i1 is no index of the array
SetStream(i1, fopenOk, beyond) ==
    /\ vmState = "running"
    /\ svc_op' = "INTERNAL_SETSTREAM"
    /\ svc_i1' = i1
    /\ svc_result' = currentStream
    /\ currentStream' = i1
    /\ LET found == IF i1 \in StreamSlots THEN streams[i1] ELSE beyond
       IN  IF found # "null"
           THEN UNCHANGED <<streams, symOpens, procVars, Buffers, BufferCount>>
           ELSE IF i1 = java_lang_VM_STREAM_SYMBOLS
           THEN /\ symOpens < MaxOpens
                /\ symOpens' = symOpens + 1
                /\ streams' = [streams EXCEPT
                                  ![i1] = IF fopenOk THEN "squawk_dynamic.sym" ELSE "null"]
                /\ IF ~fopenOk /\ assumeBuild
                   THEN /\ FatalVMError("", Buffers, BufferCount)
                        /\ UNCHANGED isCalledFromJava
                   ELSE UNCHANGED <<procVars, Buffers, BufferCount>>
           ELSE /\ FatalVMError("Bad INTERNAL_SETSTREAM", Buffers, BufferCount)
                /\ UNCHANGED <<isCalledFromJava, streams, symOpens>>
    /\ UNCHANGED <<overrun, bufCall, freeCalls, traceFileOpen, lastThreadID,
                   traceOut, macroize, chain, walk, dbVars, ioVars, cioVars, layVars, sysVars,
                   decVars, runVars>>

-----------------------------------------------------------------------------
(* vm/trace.c : the trace file *)

\* static storage and the zeroed globals
TraceInit ==
    /\ traceFileOpen = FALSE
    /\ lastThreadID = -2
    /\ traceOut = <<>>

\* the thread IDs of trace(): -1 for the system thread, else a thread number
ThreadIds == {0 - 1} \cup (0..MaxThread)

\* the instructions traced: one for every first byte the decoder tells apart
TraceInputs == {[bytes |-> CodeBytes(b0, 0, 5), bigEndian |-> TRUE] : b0 \in FirstBytes}

Line(kind, id) == [kind |-> kind, id |-> id]

\* openTraceFile: the line it writes when this call opens the file
openTraceFile(open) == IF open THEN <<>> ELSE <<Line("*TRACE*:*ROM*", 0)>>

\* a variant that writes the header only when the file is opened
NeedsThreadSwitch_on_open_only(opened, threadID, last) == opened

\* trace: the condition of the THREADSWITCH line
NeedsThreadSwitch(opened, threadID, last) == opened \/ threadID # last

\* the ip of the interpreter after decodeInstruction(&instruction, traceIP):
\* a build without MACROIZE has no local ip in decodeInstruction, which
\* assigns traceIP to the global ip and fetches through it
IpAfterDecode(mac, ipNow, traceIP, d) == IF mac THEN ipNow ELSE traceIP + d.ip

\* a variant that leaves the global ip where decodeInstruction left it
IpAfterTrace_not_restored(mac, ipNow, traceIP, d) ==
    IpAfterDecode(mac, ipNow, traceIP, d)

\* the ip of the interpreter after trace(traceIP, fp, sp) has returned: a
\* build without MACROIZE saves the global ip on entry and restores it
IpAfterTrace(mac, ipNow, traceIP, d) ==
    LET saveIP == ipNow
    IN  IF mac THEN IpAfterDecode(mac, ipNow, traceIP, d) ELSE saveIP

\* fatalVMError(msg) called while the frame chain is more than 2000 frames
\* deep: printStackTrace walks the chain again, and the second fatalVMError
\* stops the VM
FatalDeep(msg) ==
    /\ errlog' = errlog \o FatalLine(msg)
                   \o <<"Recursive call to fatalVMError",
                        "**** Call stack suspiciously deep - infinite recursion? ****">>
    /\ inFatalVMError' = TRUE
    /\ StopVM(-1, Buffers, BufferCount)
    /\ UNCHANGED isCalledFromJava

\* trace(ipCopy, fp, sp) called by the dispatch loop after the fetch of the
\* opcode at ipCopy, with the current thread threadID; deep tells that the
\* frame chain is more than 2000 frames long
Trace(threadID, deep) ==
    /\ vmState = "running"
    /\ Len(traceOut) < MaxTrace + 2
    /\ LET traceIP == regs.ip - 1
           opened == ~traceFileOpen
           switch == NeedsThreadSwitch(opened, threadID, lastThreadID)
           d == decodeInstruction(decIn)
           lines == openTraceFile(traceFileOpen)
                    \o (IF switch THEN <<Line("*THREADSWITCH*", threadID)>> ELSE <<>>)
       IN  /\ traceFileOpen' = TRUE
           /\ lastThreadID' = IF switch THEN threadID ELSE lastThreadID
           /\ IF deep /\ switch
              THEN /\ traceOut' = traceOut \o lines \o <<Line("*STACKTRACESTART*", 0)>>
                   /\ FatalDeep("**** Call stack suspiciously deep - infinite recursion? ****")
                   /\ UNCHANGED regs
              ELSE IF deep
              THEN /\ traceOut' = traceOut \o lines \o <<Line("*STACKTRACESTART*", 0)>>
                   /\ FatalDeep("**Call depth suspiciously deep - infinite recursion?**")
                   /\ regs' = [regs EXCEPT !.ip = IpAfterDecode(macroize, regs.ip, traceIP, d)]
              ELSE /\ traceOut' = traceOut \o lines \o <<Line("*TRACE*", threadID)>>
                   /\ regs' = [regs EXCEPT !.ip = IpAfterTrace(macroize, regs.ip, traceIP, d)]
                   /\ UNCHANGED <<procVars, Buffers, BufferCount>>
    /\ UNCHANGED <<streams, currentStream, symOpens, macroize, chain, walk, overrun, bufCall,
                   freeCalls,
                   loc_hdr, loc_cmd, loopFrom, chk_i, fetches, fetchSlots, readyCount,
                   hits, leftBy, dbVars, ioVars, svcVars, cioVars, layVars, sysVars, decVars>>

\* printStackTracePrim, for a frame chain that is not deep
PrintStackTrace ==
    /\ vmState = "running"
    /\ Len(traceOut) < MaxTrace + 2
    /\ traceFileOpen' = TRUE
    /\ traceOut' = traceOut \o openTraceFile(traceFileOpen)
                     \o <<Line("*STACKTRACESTART*", 0), Line("*STACKTRACEEND*", 0)>>
    /\ UNCHANGED <<streams, currentStream, symOpens, lastThreadID, macroize, chain, walk,
                   procVars, dbVars, ioVars, svcVars, bufVars, cioVars, layVars, sysVars, decVars,
                   runVars>>

\* the depth beyond which calculateCallDepth and traceFrames give up
SuspiciousDepth == 2000

\* a frame chain as a walker sees it from the frame fp points to: frames
\* 1..len, each returning to the next one, the last returning to frame
\* 'back'; back = 0 is the null return-fp of the outermost frame, any other
\* value closes a cycle
ChainLengths == (0..MaxChain) \cup {SuspiciousDepth, SuspiciousDepth + 1}
Chains ==
    {c \in [len : ChainLengths, back : 0..MaxChain] :
        c.back <= c.len /\ (c.len > MaxChain => c.back = 0)}
NullTerminated(c) == c.back = 0

\* fp, null when there is no frame
FirstFrame(c) == IF c.len = 0 THEN 0 ELSE 1

\* getObject(traceFP, FP_returnFP)
returnFP(c, traceFP) == IF traceFP < c.len THEN traceFP + 1 ELSE c.back

\* a variant that gives up one frame early
Deep_at_limit(n) == n >= SuspiciousDepth

\* the tests "depth > 2000" and "recursionGuard > 2000"
Deep(n) == n > SuspiciousDepth

NoWalk ==
    [fn |-> "none", by |-> "none", entry |-> "none", traceFP |-> 0, n |-> 0,
     ended |-> "none"]
FrameIdle == chain = [len |-> 0, back |-> 0] /\ walk = NoWalk

\* the message of each walker's fatal error
DeepMessage(fn) ==
    IF fn = "calculateCallDepth"
    THEN "**Call depth suspiciously deep - infinite recursion?**"
    ELSE "**** Call stack suspiciously deep - infinite recursion? ****"

\* the entry of a walk at fp: calculateCallDepth(traceFP) or traceFrames(..)
\* called by trace(), or a fatalVMError raised elsewhere, which prints its
\* message and calls printStackTrace, whose traceFrames starts at fp
WalkStart(fn) ==
    /\ vmState = "running"
    /\ walk = NoWalk
    /\ IF fn = "fatalVMError"
       THEN /\ errlog' = errlog \o FatalLine("fatal VM error")
            /\ inFatalVMError' = TRUE
            /\ walk' = [fn |-> "traceFrames", by |-> "fatalVMError", entry |-> fn,
                        traceFP |-> FirstFrame(chain), n |-> 0, ended |-> "none"]
       ELSE /\ walk' = [fn |-> fn, by |-> "trace", entry |-> fn,
                        traceFP |-> FirstFrame(chain), n |-> 0, ended |-> "none"]
            /\ UNCHANGED <<errlog, inFatalVMError>>
    /\ UNCHANGED <<vmState, exitCode, isCalledFromJava, stopLog, chain, streams,
                   currentStream, symOpens, traceFileOpen, lastThreadID, traceOut, macroize,
                   dbVars, ioVars, svcVars, bufVars, cioVars, layVars, sysVars, decVars, runVars>>

\* one evaluation of the loop test of the walker in progress and, when the
\* test holds, one pass through the loop body: the counter is incremented
\* and tested, then traceFP moves to the return-fp of its frame.  A walker
\* past the limit calls fatalVMError, whose first call prints a stack trace
\* (a second traceFrames from fp) and whose later calls go to stopVM(-1)
WalkStep ==
    /\ vmState = "running"
    /\ walk.fn # "none"
    /\ IF walk.traceFP = 0
       THEN IF walk.by = "fatalVMError"
            THEN /\ walk' = [walk EXCEPT !.fn = "none", !.ended = "fatal"]
                 /\ StopVM(-1, Buffers, BufferCount)
                 /\ UNCHANGED <<errlog, inFatalVMError>>
            ELSE /\ walk' = [walk EXCEPT !.fn = "none", !.ended = "returned"]
                 /\ UNCHANGED <<vmState, exitCode, errlog, inFatalVMError, stopLog,
                                Buffers, BufferCount>>
       ELSE IF Deep(walk.n + 1)
       THEN /\ errlog' = errlog \o FatalLine(DeepMessage(walk.fn))
            /\ inFatalVMError' = TRUE
            /\ IF inFatalVMError
               THEN /\ walk' = [walk EXCEPT !.fn = "none", !.n = walk.n + 1,
                                            !.ended = "fatal"]
                    /\ StopVM(-1, Buffers, BufferCount)
               ELSE /\ walk' = [walk EXCEPT !.fn = "traceFrames", !.by = "fatalVMError",
                                            !.traceFP = FirstFrame(chain), !.n = 0]
                    /\ UNCHANGED <<vmState, exitCode, stopLog, Buffers, BufferCount>>
       ELSE /\ walk' = [walk EXCEPT !.n = walk.n + 1,
                                    !.traceFP = returnFP(chain, walk.traceFP)]
            /\ UNCHANGED <<vmState, exitCode, errlog, inFatalVMError, stopLog,
                           Buffers, BufferCount>>
    /\ UNCHANGED <<isCalledFromJava, chain, streams, currentStream, symOpens, traceFileOpen,
                   lastThreadID, traceOut, macroize, overrun, bufCall, freeCalls,
                   dbVars, ioVars, svcVars, cioVars, layVars, sysVars, decVars, runVars>>

\* ---- runs started by the embedding host ----
\* Java_com_sun_squawk_vm_Main_squawk called again after the run before it
\* came back through longjmp: initializeGlobals zeroes the Globals struct
\* and sets the defaults, the two argument buffers are registered,
\* isCalledFromJava is set and Squawk_main registers the memory buffer.
\* The flag of fatalVMError is a static local of that function, no member
\* of Globals: it keeps its value
HostEntry ==
    /\ vmState = "returned"
    /\ hostRuns < MaxRuns
    /\ hostRuns' = hostRuns + 1
    /\ vmState' = "running"
    /\ exitCode' = 0
    /\ isCalledFromJava' = TRUE
    /\ stopLog' = <<>>
    /\ BufferCount' = 3
    /\ Buffers' = [k \in 0..(MAX_BUFFERS - 1) |-> IF k < 3 THEN k + 1 ELSE 0]
    /\ streams' = [i \in StreamSlots |->
                     CASE i = java_lang_VM_STREAM_STDOUT -> "stdout"
                       [] i = java_lang_VM_STREAM_STDERR -> "stderr"
                       [] OTHER -> "null"]
    /\ currentStream' = java_lang_VM_STREAM_STDERR
    /\ traceFileOpen' = FALSE
    /\ lastThreadID' = 0 - 2
    /\ UNCHANGED <<inFatalVMError, errlog, overrun, bufCall, freeCalls, symOpens, traceOut,
                   macroize, chain, walk, stop, flashIn, flashOut, dbVars, ioVars, svcVars,
                   cioVars, layVars, decVars, runVars>>

\* the messages of the fatal errors a run can raise first
HostMessages == {"fatal VM error", "exceeded MAX_BUFFERS allocations", "signal"}

\* the first fatalVMError(msg) call of the run in progress, with its stopVM
HostFatal(msg) ==
    /\ vmState = "running"
    /\ FatalVMError(msg, Buffers, BufferCount)
    /\ UNCHANGED <<isCalledFromJava, overrun, bufCall, freeCalls, dbVars, ioVars, svcVars,
                   cioVars, layVars, sysVars, decVars, outVars, runVars>>

\* stopVM(status) called by the run in progress
HostStop(status) ==
    /\ vmState = "running"
    /\ StopVM(status, Buffers, BufferCount)
    /\ UNCHANGED <<isCalledFromJava, inFatalVMError, errlog, overrun, bufCall, freeCalls,
                   dbVars, ioVars, svcVars, cioVars, layVars, sysVars, decVars, outVars,
                   runVars>>

-----------------------------------------------------------------------------
(* rts/gcc-eb40a/os.c : the flash loader of the EB40A board *)

\* the magic word 0xDEADBEEF, byte by byte
deadbeef == <<222, 173, 190, 239>>

\* what the four bytes at 0x10A0000 may hold: each the byte of the magic
\* word or another one
MemBytes == {0} \cup {deadbeef[i] : i \in 1..4}
Mems == [1..4 -> MemBytes]
HasMagic(mem) == \A i \in 1..4 : mem[i] = deadbeef[i]

\* what a call of loadAndFlashAt may return: a failure or a success
LoadResults == {-1, 0, 1}

\* loadFlash: calls is the offsets loadAndFlashAt was called with, in the
\* order of the calls; loads is what the first and the second call return.
\* The value the check of the magic word leaves in result is overwritten by
\* the first call.
loadFlash(updateVM, mem, loads) ==
    LET checked == IF \E i \in 1..4 : mem[i] # deadbeef[i] THEN 0 ELSE 1
        done ==
            IF updateVM # 0
            THEN IF loads[1] <= 0
                 THEN [calls |-> <<0>>, result |-> 0]
                 ELSE [calls |-> <<0, 262144>>, result |-> loads[2]]
            ELSE [calls |-> <<655360>>, result |-> loads[1]]
    IN  [calls   |-> done.calls,
         result  |-> IF done.result <= 0 THEN 0 ELSE done.result,
         warned  |-> checked = 0]

\* main up to the start of the VM, built with EB40AFLASH and DB_DEBUG: SW4
\* enables the debugger, SW1 with SW3 updates the VM, SW1 alone loads an
\* application, and the loader's result is the exit status
Main(mem, loads) ==
    /\ vmState = "running"
    /\ flashOut.boot = "reset"
    /\ db_debug_enabled' = sw_is_pressed({4})
    /\ IF sw_is_pressed({1, 3}) \/ sw_is_pressed({1})
       THEN LET updateVM == IF sw_is_pressed({1, 3}) THEN 1 ELSE 0
                r == loadFlash(updateVM, mem, loads)
            IN  /\ flashIn' = [updateVM |-> updateVM, mem |-> mem, loads |-> loads]
                /\ flashOut' = [boot |-> "loader", calls |-> r.calls, result |-> r.result]
                /\ vmState' = "exited"
                /\ exitCode' = IF r.result # 0 THEN 0 ELSE -1
       ELSE /\ flashOut' = [flashOut EXCEPT !.boot = "vm"]
            /\ UNCHANGED <<flashIn, vmState, exitCode>>
    /\ UNCHANGED <<isCalledFromJava, inFatalVMError, errlog, stopLog, stop, hostRuns,
                   db_bp_set, db_bp_table, db_current_ips, dbState, code,
                   ioVars, svcVars, bufVars, cioVars, layVars, decVars, outVars, runVars>>

\* the streams, the trace file and the frame walkers at rest
OutIdle == StreamInit /\ TraceInit /\ macroize = FALSE /\ FrameIdle

-----------------------------------------------------------------------------
(* Specifications *)

\* the other subsystems at rest
ProcIdle == ProcInit /\ isCalledFromJava = FALSE
DbIdle   == DbInit /\ db_debug_enabled = TRUE /\ code = [a \in CodeAddrs |-> "other"]

\* the debugger's command loop
DebugInit ==
    ProcIdle /\ DbInit /\ IoInit /\ SvcInit /\ BufInit /\ CioInit /\ LayIdle /\ SysIdle
    /\ DecIdle /\ OutIdle /\ RunInit
DebugNext ==
    \/ DbPrepare
    \/ \E n \in CmdSlots, a \in CodeAddrs : BreakSet(n, a)
    \/ \E n \in CmdSlots : BreakClear(n)
    \/ DbContinue
SpecDebug == DebugInit /\ [][DebugNext]_vars

\* the SET and CLEAR commands on the first and the last slot of the table
EndSlots == {0, DB_MAX_BPS - 1}
BreakNext ==
    \/ DbPrepare
    \/ \E n \in EndSlots, a \in CodeAddrs : BreakSet(n, a)
    \/ \E n \in EndSlots : BreakClear(n)
SpecBreak == DebugInit /\ [][BreakNext]_vars

\* the switch-event queue of the outer channel tier
IoSpecInit ==
    ProcIdle /\ DbIdle /\ IoInit /\ SvcInit /\ BufInit /\ CioInit /\ LayIdle /\ SysIdle
    /\ DecIdle /\ OutIdle /\ RunInit
IoNext ==
    \/ \E sw \in Switches : SwitchChange(sw)
    \/ \E m \in Masks, ok \in BOOLEAN : SwRead(m, ok)
    \/ GetEvent
SpecIO == IoSpecInit /\ [][IoNext]_vars

\* the switch-event queue with the timed wait
WaitNext ==
    \/ IoNext
    \/ Tick
    \/ \E i2 \in 0..MaxWait : WaitStart(0, i2)
    \/ WaitPoll
SpecWait == IoSpecInit /\ [][WaitNext]_vars

\* waits for every pair of ints i1, i2, with no switch request made, while
\* the switches change; getMilliseconds() reads any non-negative long long
\* when the first wait is made
DeadlineInit ==
    /\ ProcIdle /\ DbIdle /\ SvcInit /\ BufInit /\ CioInit /\ LayIdle /\ SysIdle /\ DecIdle /\ OutIdle /\ RunInit
    /\ switchRequests = <<>>
    /\ retValue = 0
    /\ switches = {}
    /\ ioPc = "idle"
    /\ polled = 0
    /\ now \in 0..maxValue
    /\ target = 0
DeadlineNext ==
    \/ Tick
    \/ \E sw \in Switches : SwitchChange(sw)
    \/ \E i1 \in IntRange, i2 \in IntRange : WaitStart(i1, i2)
    \/ WaitPoll
SpecDeadline == DeadlineInit /\ [][DeadlineNext]_vars

\* the buffer registry
LowestOf(S, n) == {b \in S : Cardinality({c \in S : c < b}) < n}
\* valloc fails or returns a block that is not in use; blocks are only ever
\* compared for equality, so the lowest free one stands for any of them
VallocResults == {0} \cup LowestOf(FreeBlocks, 1)
\* freeBuffer is called for the buffers at some positions of the table and
\* for a block that is not registered
FreeArguments ==
    {Buffers[k] : k \in {j \in FreePositions \cup {BufferCount - 1} : j >= 0 /\ j < BufferCount}}
        \cup LowestOf(FreeBlocks, 1)
BufSpecInit ==
    ProcInit /\ DbIdle /\ IoInit /\ SvcInit /\ BufInit /\ CioInit /\ LayIdle /\ SysIdle
    /\ DecIdle /\ OutIdle /\ RunInit
BufNext ==
    \/ \E f \in BOOLEAN, b \in VallocResults : NewBuffer(f, b)
    \/ \E b \in FreeArguments : FreeBuffer(b)
SpecBuffers == BufSpecInit /\ [][BufNext]_vars

\* copy bytes and the page protection of NVM
CopyInit ==
    /\ ProcInit /\ DbIdle /\ IoInit /\ SvcInit /\ BufInit /\ LayIdle /\ SysIdle
    /\ DecIdle /\ OutIdle /\ RunInit
    /\ nvmReadOnly = TRUE
    /\ romReadOnly = TRUE
    /\ cells \in [Cells -> ByteValues]
    /\ cheneyStartMemoryProtect = 0
    /\ assumeBuild \in BOOLEAN
    /\ calls = <<>>
CopyNext ==
    \/ \E start \in {0} \cup RamCells : CollectorGuards(start)
    \/ \E lth \in 1..RegionCells, src \in Cells, dst \in Cells, i4 \in 0..1,
          u \in BOOLEAN, p \in BOOLEAN, partial \in BOOLEAN :
          /\ src + lth <= java_lang_GC_ramEnd
          /\ dst + lth <= java_lang_GC_ramEnd
          /\ CopyBytes(lth, src, dst, i4, u, p, partial)
SpecCopy == CopyInit /\ [][CopyNext]_vars

\* the layout of the memory buffer, for every input
LayoutInit ==
    ProcIdle /\ DbIdle /\ IoInit /\ SvcInit /\ BufInit /\ CioInit /\ LayInit /\ SysIdle
    /\ RunInit
    /\ DecIdle /\ OutIdle
LayoutNext == SetupMemory
SpecLayout == LayoutInit /\ [][LayoutNext]_vars

\* a run under the debugger: Squawk_setup has registered the memory buffer
\* (and, for a VM launched by a host, the two buffers of the entry point)
RunBufInit ==
    /\ BufferCount = IF isCalledFromJava THEN 3 ELSE 1
    /\ Buffers = [k \in 0..(MAX_BUFFERS - 1) |-> IF k < BufferCount THEN k + 1 ELSE 0]
    /\ overrun = FALSE
    /\ freeCalls = 0
    /\ bufCall = [fn |-> "none", arg |-> 0, got |-> 0, ret |-> 0, before |-> <<>>,
                  undoes |-> FALSE, origin |-> <<>>]
RunSpecInit ==
    /\ ProcInit /\ DbInit /\ code = [a \in CodeAddrs |-> "other"]
    /\ IoInit /\ SvcInit /\ RunBufInit /\ CioInit /\ LayIdle /\ SysIdle
    /\ DecIdle /\ OutIdle /\ RunInit
RunNext ==
    \/ DbPrepare
    \/ \E n \in RunSlots, a \in CodeAddrs : BreakSet(n, a)
    \/ \E n \in RunSlots : BreakClear(n)
    \/ \E n \in RunSlots : BreakSetFault(n)
    \/ DbContinue
    \/ \E ss \in {"S", "M"}, f \in BOOLEAN : DbDataGet(ss, f)
    \/ \E msg \in ProtocolErrors : DbProtocolError(msg)
    \/ \E line \in UnparsedLines : DbUnparsedLine(line)
    \/ Fetch
    \/ \E ip \in CodeAddrs, fp \in FrameValues, sp \in FrameValues : Execute(ip, fp, sp)
    \/ \E i1 \in {0, 1} : ExecuteStopVM(i1)
SpecRun == RunSpecInit /\ [][RunNext]_vars

\* a run under a debugger whose lines are all well formed and whose
\* addresses can all be read
HitsInit ==
    /\ ProcIdle /\ DbInit /\ code = [a \in CodeAddrs |-> "other"]
    /\ IoInit /\ SvcInit /\ RunBufInit /\ CioInit /\ LayIdle /\ SysIdle
    /\ DecIdle /\ OutIdle /\ RunInit
HitsNext ==
    \/ DbPrepare
    \/ \E n \in RunSlots, a \in CodeAddrs : BreakSet(n, a)
    \/ \E n \in RunSlots : BreakClear(n)
    \/ DbContinue
    \/ Fetch
    \/ \E ip \in CodeAddrs : Execute(ip, regs.fp, regs.sp)
SpecHits == HitsInit /\ [][HitsNext]_vars

\* the tracer decodes one instruction
DecodeInit ==
    ProcIdle /\ DbIdle /\ IoInit /\ SvcInit /\ BufInit /\ CioInit /\ LayIdle /\ SysIdle /\ RunInit
    /\ DecInit /\ OutIdle
DecodeNext == DecodeInstruction
SpecDecode == DecodeInit /\ [][DecodeNext]_vars

\* peeks, get-result calls and unrecognised operations among switch reads
ChannelInit ==
    ProcInit /\ DbIdle /\ IoInit /\ SvcInit /\ RunBufInit /\ CioInit /\ LayIdle /\ SysIdle
    /\ DecIdle /\ OutIdle /\ RunInit
ChannelNext ==
    \/ \E m \in Masks : SwRead(m, TRUE)
    \/ \E w \in Words, f \in BOOLEAN : Peek(w, f)
    \/ \E op \in GetResultOps : GetResult(op)
    \/ UnknownOp
SpecChannel == ChannelInit /\ [][ChannelNext]_vars

\* the selection of output streams, in builds with and without ASSUME
StreamSpecInit ==
    /\ ProcInit /\ DbIdle /\ IoInit /\ SvcInit /\ RunBufInit /\ LayIdle /\ SysIdle /\ DecIdle
    /\ RunInit /\ StreamInit /\ TraceInit /\ macroize = FALSE /\ FrameIdle
    /\ nvmReadOnly = TRUE /\ romReadOnly = TRUE /\ cells = [a \in Cells |-> 0]
    /\ cheneyStartMemoryProtect = 0 /\ calls = <<>>
    /\ assumeBuild \in BOOLEAN
StreamNext ==
    \E i1 \in StreamArgs, fopenOk \in BOOLEAN, beyond \in Beyond :
        SetStream(i1, fopenOk, beyond)
SpecStreams == StreamSpecInit /\ [][StreamNext]_vars

\* the tracer at work in builds with and without MACROIZE
TraceSpecInit ==
    /\ ProcIdle /\ DbIdle /\ IoInit /\ SvcInit /\ RunBufInit /\ CioInit /\ LayIdle /\ SysIdle
    /\ StreamInit /\ TraceInit /\ FrameIdle
    /\ macroize \in BOOLEAN
    /\ decIn \in TraceInputs /\ decOut = <<>>
    /\ loc_hdr = "indeterminate" /\ loc_cmd = "indeterminate" /\ loopFrom = "none"
    /\ chk_i = 0 /\ fetches = 0 /\ fetchSlots = {} /\ readyCount = 0 /\ hits = <<>>
    /\ leftBy = "none"
    /\ regs \in [ip : {1}, fp : {1}, sp : FrameValues]
TraceNext ==
    \/ \E threadID \in ThreadIds, deep \in BOOLEAN : Trace(threadID, deep)
    \/ PrintStackTrace
SpecTrace == TraceSpecInit /\ [][TraceNext]_vars


\* the frame walkers of the trace, over every chain; the loop of a walker
\* in progress keeps running
Entries == {"calculateCallDepth", "traceFrames", "fatalVMError"}
FramesInit ==
    /\ ProcInit /\ DbIdle /\ IoInit /\ SvcInit /\ RunBufInit /\ CioInit /\ LayIdle /\ SysIdle
    /\ DecIdle /\ RunInit /\ StreamInit /\ TraceInit /\ macroize = FALSE
    /\ chain \in Chains
    /\ walk = NoWalk
FramesNext ==
    \/ \E fn \in Entries : WalkStart(fn)
    \/ WalkStep
SpecFrames == FramesInit /\ [][FramesNext]_vars /\ WF_vars(WalkStep)


\* the fatal path of a run with its buffers registered, statement by
\* statement; a stopVM in progress keeps running
FatalStep == FreeBuffersTest \/ \E aborts \in BOOLEAN : FreeBufferStep(aborts)
FatalInit ==
    /\ ProcInit /\ DbIdle /\ IoInit /\ SvcInit /\ RunBufInit /\ CioInit /\ LayIdle
    /\ SysIdle /\ DecIdle /\ OutIdle /\ RunInit
FatalNext ==
    \/ \E status \in {0, 1} : EnterStopVM(status)
    \/ RaiseFatal
    \/ Signal
    \/ FreeBuffersTest
    \/ \E aborts \in BOOLEAN : FreeBufferStep(aborts)
SpecFatal == FatalInit /\ [][FatalNext]_vars /\ WF_vars(FatalStep)


\* runs of the VM started one after another by an embedding host
HostInit ==
    /\ ProcInit /\ isCalledFromJava = TRUE
    /\ DbIdle /\ IoInit /\ SvcInit /\ RunBufInit /\ CioInit /\ LayIdle /\ DecIdle /\ OutIdle
    /\ RunInit
    /\ stop = NoStop /\ hostRuns = 1 /\ flashIn = NoFlash /\ flashOut = NotLoaded
HostNext ==
    \/ HostEntry
    \/ \E msg \in HostMessages : HostFatal(msg)
    \/ \E status \in {0, 1} : HostStop(status)
SpecHost == HostInit /\ [][HostNext]_vars


\* waits whose clock plus requested time is a long long, with no switch
\* request made; the clock keeps advancing and the loop of a wait in
\* progress keeps turning
TimedNext ==
    \/ Advance
    \/ \E i1 \in IntRange, i2 \in IntRange : SumFits(now, i1, i2) /\ WaitStart(i1, i2)
    \/ WaitPoll
SpecTimed ==
    DeadlineInit /\ [][TimedNext]_vars /\ WF_vars(Advance) /\ WF_vars(WaitPoll)


\* the board after reset, with any of SW1, SW3 and SW4 held down
FlashInit ==
    /\ ProcIdle /\ DbIdle /\ SvcInit /\ BufInit /\ CioInit /\ LayIdle /\ SysIdle /\ DecIdle
    /\ OutIdle /\ RunInit
    /\ switchRequests = <<>>
    /\ retValue = 0
    /\ switches \in SUBSET {1, 3, 4}
    /\ ioPc = "idle"
    /\ polled = 0
    /\ now = 0
    /\ target = 0
FlashNext == \E mem \in Mems, loads \in LoadResults \X LoadResults : Main(mem, loads)
SpecFlash == FlashInit /\ [][FlashNext]_vars

-----------------------------------------------------------------------------
(* Properties *)

AssertedAt(queue) == {i \in 1..Len(queue) : sw_is_pressed(queue[i].mask)}
FirstAsserted(queue) ==
    CHOOSE i \in AssertedAt(queue) : \A j \in AssertedAt(queue) : i <= j

\* C2: a consuming check removes the first record, in queue order, whose mask
\* is asserted, returns its sequence number and leaves the other records in
\* their order; with no asserted mask it returns 0 and changes nothing.
C2_ConsumingCheck ==
    [][GetEvent =>
        IF AssertedAt(switchRequests) = {}
        THEN svc_result' = 0 /\ switchRequests' = switchRequests
        ELSE LET i == FirstAsserted(switchRequests)
             IN  /\ svc_result' = switchRequests[i].eventNumber
                 /\ Len(switchRequests') = Len(switchRequests) - 1
                 /\ \A k \in 1..(Len(switchRequests) - 1) :
                       switchRequests'[k] =
                          IF k < i THEN switchRequests[k] ELSE switchRequests[k + 1]
    ]_vars

\* C2 witness: from requests 1, 2, 3 the check returned 2 and left 1 and 3
C2_Witness ==
    /\ svc_op = "GLOBAL_GETEVENT"
    /\ svc_result = 2
    /\ Len(switchRequests) = 2
    /\ switchRequests[1].eventNumber = 1
    /\ switchRequests[2].eventNumber = 3

\* C3: a non-consuming check leaves the queue as it is and returns what a
\* consuming check returns in that state: the sequence number of the first
\* record whose mask is asserted, or 0.
C3_NonConsumingCheck ==
    [][WaitPoll =>
        /\ switchRequests' = switchRequests
        /\ polled' = IF AssertedAt(switchRequests) = {} THEN 0
                     ELSE switchRequests[FirstAsserted(switchRequests)].eventNumber
    ]_vars

\* C3 witness: the wait ended on a request that is still queued, behind another
C3_Witness ==
    /\ svc_op = "GLOBAL_WAITFOREVENT"
    /\ ioPc = "idle"
    /\ polled # 0
    /\ Len(switchRequests) >= 2
    /\ switchRequests[2].eventNumber = polled
    /\ sw_is_pressed(switchRequests[2].mask)

SwReadStep == \E m \in Masks, ok \in BOOLEAN : SwRead(m, ok)

SwReadStores(m) ==
    IF sw_is_pressed(m)
    THEN svc_result' = 0 /\ switchRequests' = switchRequests
    ELSE /\ Len(switchRequests') = Len(switchRequests) + 1
         /\ SubSeq(switchRequests', 1, Len(switchRequests)) = switchRequests
         /\ switchRequests'[Len(switchRequests')].mask = m
         /\ svc_result' = switchRequests'[Len(switchRequests')].eventNumber

Without(s, i) == [k \in 1..(Len(s) - 1) |-> IF k < i THEN s[k] ELSE s[k + 1]]

\* C6: a successful newBuffer followed by freeBuffer of the returned buffer
\* leaves BufferCount at its prior value and the previously registered
\* buffers registered, in the same order.
C6_AllocateReleaseRoundTrip ==
    (bufCall.fn = "freeBuffer" /\ bufCall.undoes) =>
        /\ vmState = "running"
        /\ BufferCount = Len(bufCall.origin)
        /\ \A k \in 1..Len(bufCall.origin) : Buffers[k - 1] = bufCall.origin[k]

\* C6 witness: a round trip on a registry that held three buffers, the first
\* two of them no longer the first two blocks handed out
C6_Witness ==
    /\ bufCall.fn = "freeBuffer"
    /\ bufCall.undoes
    /\ Len(bufCall.origin) = 3
    /\ bufCall.origin[1] # 1
    /\ BufferCount = 3

C7_WitnessUnregistered ==
    /\ bufCall.fn = "freeBuffer"
    /\ Len(bufCall.before) = 2
    /\ \A i \in 1..2 : bufCall.before[i] # bufCall.arg
    /\ vmState # "running"

\* C8 as claimed: 0 <= BufferCount <= MAX_BUFFERS always, and a newBuffer call
\* made while MAX_BUFFERS buffers are registered is a fatal error and never
\* writes past the end of Buffers.
C8_FullRegistryAlwaysFatal ==
    /\ BufferCount >= 0 /\ BufferCount <= MAX_BUFFERS
    /\ ~overrun
    /\ (bufCall.fn = "newBuffer" /\ Len(bufCall.before) = MAX_BUFFERS) =>
           vmState # "running"

\* C8: 0 <= BufferCount <= MAX_BUFFERS always; no newBuffer call writes past
\* the end of Buffers; a newBuffer call made while MAX_BUFFERS buffers are
\* registered registers nothing, and it is the fatal error "exceeded
\* MAX_BUFFERS allocations" whenever the host supplied the memory (when the
\* host did not, the call returns null or stops as at any other time).
C8_RegistryBounded ==
    /\ BufferCount >= 0 /\ BufferCount <= MAX_BUFFERS
    /\ ~overrun
    /\ (bufCall.fn = "newBuffer" /\ Len(bufCall.before) = MAX_BUFFERS) =>
           /\ bufCall.ret = 0
           /\ bufCall.got # 0 =>
                 /\ vmState # "running"
                 /\ errlog # <<>>
                 /\ errlog[Len(errlog)] = "exceeded MAX_BUFFERS allocations"

\* C8 witness: newBuffer got memory while the table was full
C8_Witness ==
    /\ bufCall.fn = "newBuffer"
    /\ Len(bufCall.before) = MAX_BUFFERS
    /\ bufCall.got # 0
    /\ vmState # "running"
    /\ ~overrun

\* C9: when the host cannot supply memory, newBuffer stops the VM with exit
\* code 1 if fatalIfFail is true, and otherwise returns null and leaves
\* Buffers and BufferCount unchanged.
C9_AllocationFailure ==
    [][/\ NewBuffer(TRUE, 0) => vmState' # "running" /\ exitCode' = 1
       /\ NewBuffer(FALSE, 0) =>
             /\ vmState' = "running"
             /\ bufCall'.ret = 0
             /\ UNCHANGED <<Buffers, BufferCount>>
    ]_vars

\* C9 witness: a fatalIfFail allocation failed with two buffers registered
C9_Witness ==
    /\ bufCall.fn = "newBuffer"
    /\ bufCall.arg = TRUE
    /\ bufCall.got = 0
    /\ Len(bufCall.before) = 2
    /\ vmState # "running"
    /\ exitCode = 1

\* the copy-bytes steps, by the value of i4
CopyStep(i4) ==
    \E lth \in 1..RegionCells, src \in Cells, dst \in Cells,
       u \in BOOLEAN, p \in BOOLEAN, partial \in BOOLEAN :
       CopyBytes(lth, src, dst, i4, u, p, partial)

\* C10: a copy-bytes operation whose destination is NVM issues one unprotect
\* of the NVM region, the write and one re-protect of the NVM region, in this
\* order; a copy-bytes operation whose destination is not NVM issues no
\* protection toggle.
C10_ProtectionBracket ==
    [][/\ CopyStep(1) => calls' = <<"unprotect NVM", "memmove", "protect NVM">>
       /\ CopyStep(0) => calls' = <<"memmove">>
    ]_vars

\* the last protection toggle a stopped or fetching VM has applied to NVM was
\* read-only: Squawk_setup's, unless the last channel operation toggled
NvmLastToggleReadOnly ==
    LET toggles == SelectSeq(calls, LAMBDA c : c \in {"unprotect NVM", "protect NVM"})
    IN  toggles = <<>> \/ toggles[Len(toggles)] = "protect NVM"

\* C11: after Squawk_setup, whenever the dispatch loop fetches an opcode and
\* whenever the VM has stopped, the last protection toggle applied to ROM and
\* the last applied to NVM was read-only.
C11_ProtectedAtRest ==
    /\ romReadOnly
    /\ NvmLastToggleReadOnly

PageAligned(a) == a % layIn.pageSize = 0
\* the start of the service stack chunk: java_lang_Thread_serviceStack lies
\* two words behind it
ChunkStart == layOut.serviceStack - TWOWORDS
PageRounded(size) == roundUp(size, layIn.pageSize)

\* C12 as claimed: for every input, the boundaries ROM, NVM, RAM, service
\* stack chunk, argument area are strictly increasing and page-aligned,
\* memorySize is the sum of the page-rounded region sizes, and the copied
\* arguments and boot-file name end at or before memoryEnd.
C12_LayoutStrictlyIncreasing ==
    layOut # <<>> =>
        /\ layOut.romStart < layOut.nvmStart
        /\ layOut.nvmStart < layOut.ramStart
        /\ layOut.ramStart < ChunkStart
        /\ ChunkStart < layOut.argv
        /\ \A a \in {layOut.romStart, layOut.nvmStart, layOut.ramStart,
                      ChunkStart, layOut.argv} : PageAligned(a)
        /\ layOut.memorySize =
              PageRounded(IF layIn.flash THEN layIn.romSize ELSE layIn.fileSize)
              + PageRounded(layIn.nvmSize) + PageRounded(layIn.ramSize)
              + PageRounded(SERVICE_CHUNK_SIZE)
              + PageRounded(layIn.argvTotalSize + layIn.romFileNameSize)
        /\ layOut.memory + layOut.offset <= layOut.memoryEnd

\* C12 amended: the boundaries NVM, RAM, service stack chunk, argument area
\* are page-aligned and never decrease, and each is strictly above the one
\* before it when the region between them has at least one byte; in a
\* file-backed build ROM starts at the page-aligned start of the buffer, in
\* front of NVM; memorySize is the sum of the page-rounded sizes of the
\* regions inside the buffer (the boot image file for ROM, none for a ROM in
\* flash); the copied arguments and boot-file name end at or before memoryEnd.
C12_LayoutOrdered ==
    layOut # <<>> =>
        /\ layOut.nvmStart <= layOut.ramStart
        /\ layIn.nvmSize >= 1 => layOut.nvmStart < layOut.ramStart
        /\ layOut.ramStart <= ChunkStart
        /\ layIn.ramSize >= 1 => layOut.ramStart < ChunkStart
        /\ ChunkStart < layOut.argv
        /\ \A a \in {layOut.nvmStart, layOut.ramStart, ChunkStart, layOut.argv} :
              PageAligned(a)
        /\ ~layIn.flash =>
              /\ layOut.romStart = layOut.memory
              /\ PageAligned(layOut.romStart)
              /\ layOut.romStart <= layOut.nvmStart
              /\ layIn.romSize >= 1 => layOut.romStart < layOut.nvmStart
        /\ layOut.memorySize =
              (IF layIn.flash THEN 0 ELSE PageRounded(layIn.fileSize))
              + PageRounded(layIn.nvmSize) + PageRounded(layIn.ramSize)
              + PageRounded(SERVICE_CHUNK_SIZE)
              + PageRounded(layIn.argvTotalSize + layIn.romFileNameSize)
        /\ layOut.memory + layOut.offset <= layOut.memoryEnd

\* C12 witness: a file-backed layout whose ROM, NVM and RAM each end inside a
\* page, with arguments
C12_Witness ==
    /\ layOut # <<>>
    /\ ~layIn.flash
    /\ layIn.pageSize = 2
    /\ layIn.romSize = 1 /\ layIn.nvmSize = 3 /\ layIn.ramSize = 1
    /\ layIn.argvTotalSize = 2
    /\ layOut.nvmStart = layOut.romStart + 2
    /\ layOut.ramStart = layOut.nvmStart + 4
    /\ ChunkStart = layOut.ramStart + 2

\* C13: once the VM has stopped on a fatal condition, it stopped through
\* stopVM: the output streams were flushed and every registered buffer was
\* released (BufferCount = 0) before the process exited or control went back
\* to the embedding host
C13_FatalThroughStopVM ==
    vmState # "running" =>
        /\ BufferCount = 0
        /\ IF Len(stopLog) >= 2
           THEN stopLog[1] = "finalizeStreams" /\ stopLog[2] = "freeBuffers"
           ELSE FALSE

\* the command loop reads a line the protocol does not allow: one of the
\* lines the code answers with an error message, or a line whose first word
\* is longer than *DEBUG*
C14_BadLine ==
    \/ \E msg \in ProtocolErrors \ {"ERROR - No data read"} : DbProtocolError(msg)
    \/ DbUnparsedLine("long header")

\* C14: a line with a header other than *DEBUG*, an unknown command letter,
\* an unknown B or D sub-command or a breakpoint number outside
\* 0..DB_MAX_BPS-1 terminates the process: the command loop is not left for
\* the dispatch loop, and the breakpoint table stays as it was
C14_BadLineTerminates ==
    [][C14_BadLine =>
          /\ vmState' = "exited"
          /\ dbState' = "cmdloop"
          /\ db_bp_table' = db_bp_table]_vars

\* C15: with debugging enabled one ready message is sent, in front of the
\* first fetch, and the first opcode is fetched only after the command loop
\* has read CONTINUE; with debugging disabled no ready message is sent and
\* the command loop is never entered
C15_ReadyThenContinue ==
    IF db_debug_enabled
    THEN /\ readyCount = (IF dbState = "boot" THEN 0 ELSE 1)
         /\ dbState = "dispatch" /\ fetches = 0 => leftBy = "CONTINUE"
    ELSE /\ readyCount = 0
         /\ dbState # "cmdloop"

\* C16: when the fetched opcode comes from an address held by active slots,
\* a hit notice with the number of each such slot has been sent, and
\* CONTINUE has been read, by the time the opcode is executed; an opcode
\* from an address no slot holds has no hit notice; and ip, fp and sp stay
\* as they are while the command loop runs
C16_HitBeforeExecute ==
    /\ [](db_debug_enabled /\ vmState = "running" /\ dbState = "execute" =>
             /\ \A j \in fetchSlots : \E k \in 1..Len(hits) : hits[k] = j
             /\ hits # <<>> => leftBy = "CONTINUE"
             /\ fetchSlots = {} => hits = <<>>)
    /\ [][dbState = "cmdloop" => regs' = regs]_vars

\* the grammar of an instruction, read off its first two bytes
C17_First == decIn.bytes[1]
C17_Escaped == decIn.bytes[2] + 256
C17_WideByteForms == {OPC_WIDE_M1, OPC_WIDE_0, OPC_WIDE_1,
                      OPC_ESCAPE_WIDE_M1, OPC_ESCAPE_WIDE_0, OPC_ESCAPE_WIDE_1}
C17_WideShortForms == {OPC_WIDE_SHORT, OPC_ESCAPE_WIDE_SHORT}
C17_WideIntForms == {OPC_WIDE_INT, OPC_ESCAPE_WIDE_INT}
C17_PlainRange ==
    OPC_FIRST_PARM_BYTECODE..(OPC_FIRST_PARM_BYTECODE + OPC_PARM_BYTECODE_COUNT - 1)
C17_EscapeRange ==
    OPC_FIRST_ESCAPE_PARM_BYTECODE
        ..(OPC_FIRST_ESCAPE_PARM_BYTECODE + OPC_ESCAPE_PARM_BYTECODE_COUNT - 1)
C17_GrammarLength ==
    CASE C17_First \in C17_WideByteForms -> 3
      [] C17_First \in C17_WideShortForms -> 4
      [] C17_First \in C17_WideIntForms -> 6
      [] C17_First = OPC_CONST_LONG -> 9
      [] C17_First = OPC_CONST_INT -> 5
      [] C17_First \in {OPC_CONST_SHORT, OPC_CONST_CHAR} -> 3
      [] C17_First = OPC_CONST_BYTE -> 2
      [] C17_First = OPC_ESCAPE ->
            (CASE C17_Escaped = OPC_CONST_DOUBLE -> 10
               [] C17_Escaped = OPC_CONST_FLOAT -> 6
               [] C17_Escaped \in C17_EscapeRange -> 3
               [] OTHER -> 2)
      [] C17_First \in C17_PlainRange -> 2
      [] OTHER -> 1
\* what the fetches of the decoder read, in the order they were made
C17_Order == [k \in 1..Len(decOut.trail) |-> decOut.trail[k].what]
\* every fetch starts where the one before it ended, the first at traceIP
C17_Forward ==
    /\ decOut.trail[1].at = 0
    /\ \A k \in 1..(Len(decOut.trail) - 1) :
          decOut.trail[k + 1].at = decOut.trail[k].at + decOut.trail[k].n
    /\ decOut.ip = decOut.trail[Len(decOut.trail)].at + decOut.trail[Len(decOut.trail)].n

\* C17 as stated: the decoder consumes exactly the bytes of the grammar,
\* never moving backward, and behind every wide prefix the operand bytes come
\* in front of the real opcode byte
C17_ConsumesGrammarOperandFirst ==
    decOut # <<>> =>
        /\ decOut.ip = C17_GrammarLength
        /\ C17_Forward
        /\ C17_First \in PrefixOpcodes \ {OPC_ESCAPE} =>
              C17_Order = <<"prefix", "operand", "opcode">>

\* C17, amended: the decoder consumes exactly the bytes of the grammar, never
\* moving backward; behind WIDE_SHORT and WIDE_INT (and their escape forms)
\* the operand bytes come in front of the real opcode byte, behind WIDE_M1,
\* WIDE_0 and WIDE_1 (and their escape forms) the real opcode byte comes in
\* front of the operand byte
C17_ConsumesGrammar ==
    decOut # <<>> =>
        /\ decOut.ip = C17_GrammarLength
        /\ C17_Forward
        /\ C17_First \in C17_WideShortForms \cup C17_WideIntForms =>
              C17_Order = <<"prefix", "operand", "opcode">>
        /\ C17_First \in C17_WideByteForms =>
              C17_Order = <<"prefix", "opcode", "operand">>
        /\ C17_First = OPC_ESCAPE => C17_Order[1] = "prefix" /\ C17_Order[2] = "opcode"
        /\ C17_First \notin PrefixOpcodes => C17_Order[1] = "opcode"

\* a WIDE_INT instruction was decoded
C17_Witness ==
    /\ decOut # <<>>
    /\ C17_First = OPC_WIDE_INT
    /\ decOut.ip = 6

\* the bytes an int and a jlong occupy in memory, in address order
C18_IntBytes(v) == [k \in 1..4 |-> (v \div (256 ^ (4 - k))) % 256]
C18_Image(msbFirst) ==
    IF decIn.bigEndian THEN msbFirst
    ELSE [k \in 1..Len(msbFirst) |-> msbFirst[Len(msbFirst) + 1 - k]]

C19_OperandRanges ==
    decOut # <<>> =>
        /\ C17_First \in C17_PlainRange =>
              /\ decOut.tag = 1
              /\ decOut.ip = 2
              /\ decOut.i = (IF decIn.bytes[2] >= 128 THEN decIn.bytes[2] - 256
                             ELSE decIn.bytes[2])
        /\ C17_First = OPC_ESCAPE /\ C17_Escaped \in C17_EscapeRange =>
              /\ decOut.tag = 1
              /\ decOut.ip = 3
              /\ decOut.i = (IF decIn.bytes[3] >= 128 THEN decIn.bytes[3] - 256
                             ELSE decIn.bytes[3])
        /\ /\ C17_First \notin PrefixOpcodes \cup C17_PlainRange
           /\ C17_First \notin OPC_CONST_BYTE..OPC_CONST_LONG
           => decOut.tag = 0 /\ decOut.ip = 1
        /\ /\ C17_First = OPC_ESCAPE
           /\ C17_Escaped \notin C17_EscapeRange \cup {OPC_CONST_FLOAT, OPC_CONST_DOUBLE}
           => decOut.tag = 0 /\ decOut.ip = 2

\* C20: a wait for an event with the deadline target returns only when the
\* mask of a queued request is asserted or the clock reads past target; its
\* result is then 0, and from the call to the return the queue of pending
\* requests stays as it was
C20_WaitReturns ==
    [][ioPc = "waiting" =>
          /\ switchRequests' = switchRequests
          /\ ioPc' = "idle" =>
                /\ AssertedAt(switchRequests) # {} \/ now > target
                /\ svc_result' = 0
    ]_vars

\* C20 witness: a wait returned on the clock with a request still queued
C20_Witness ==
    /\ svc_op = "GLOBAL_WAITFOREVENT"
    /\ ioPc = "idle"
    /\ polled = 0
    /\ svc_result = 0
    /\ now > 0
    /\ switchRequests # <<>>

\* the requested wait as a number: i1 the high and i2 the low half
C21_RequestedMillis(i1, i2) == i1 * WordModulus + (i2 % WordModulus)

\* C21: when the clock plus the requested wait is beyond the largest long
\* long, the deadline of the wait is that largest value, 0x7FFFFFFFFFFFFFFF,
\* and whatever is requested the deadline is not negative
C21_OverflowFallsBack ==
    [][\A i1 \in IntRange, i2 \in IntRange :
          WaitStart(i1, i2) =>
              /\ now + C21_RequestedMillis(i1, i2) > maxValue => target' = maxValue
              /\ target' > 0
    ]_vars

\* C21 witness: a wait is in progress whose requested time, whatever its low
\* half, added to the clock is beyond the largest long long
C21_Witness ==
    /\ ioPc = "waiting"
    /\ svc_op = "GLOBAL_WAITFOREVENT"
    /\ now + C21_RequestedMillis(svc_i1, 0) > maxValue
    /\ target = maxValue

\* C22: an operation code neither cioExecute nor ioExecute has a case for
\* gives the result RESULT_BADPARAMETER, leaves the VM running, and changes
\* neither the queue of pending requests nor the deferred result
C22_UnknownOpIsBadParameter ==
    [][UnknownOp =>
          /\ svc_result' = ChannelConstants_RESULT_BADPARAMETER
          /\ vmState' = "running"
          /\ switchRequests' = switchRequests
          /\ retValue' = retValue
    ]_vars

\* C22 witness: an unrecognised operation was answered while a request was
\* pending and a peeked word was waiting to be fetched
C22_Witness ==
    /\ svc_op = "unrecognised"
    /\ svc_result = ChannelConstants_RESULT_BADPARAMETER
    /\ switchRequests # <<>>
    /\ retValue # 0

\* C23: a get-result or get-error call returns the deferred result and resets
\* it to 0; a peek that does not fault stores the peeked word there whatever
\* was there before, so that a get-result right after a peek returns the word,
\* and nothing but a peek makes the deferred result non-zero, so that a second
\* get-result with no peek in between returns 0
C23_DeferredResult ==
    /\ [][\A op \in GetResultOps :
             GetResult(op) => svc_result' = retValue /\ retValue' = 0]_vars
    /\ [][\A w \in Words : Peek(w, FALSE) => retValue' = ToInt(w)]_vars
    /\ [][retValue' # retValue =>
             \/ \E w \in Words : Peek(w, FALSE)
             \/ \E op \in GetResultOps : GetResult(op)]_vars
    /\ [][\A op \in GetResultOps :
             GetResult(op) /\ svc_op \in GetResultOps => svc_result' = 0]_vars

\* C23 witness: a get-result call has just handed out a peeked word that is
\* not 0 and left 0 behind
C23_Witness ==
    /\ svc_op \in GetResultOps
    /\ svc_result # 0
    /\ retValue = 0
    /\ vmState = "running"

\* C24: when the stop-VM operation is executed with the argument c, a VM
\* launched by a host returns exactly c from the host entry point and a VM
\* started on its own exits with the status c, for every c
C24_ExitCodeIsArgument ==
    (svc_op = "INTERNAL_STOPVM" /\ vmState \in {"returned", "exited"})
        => exitCode = svc_i1

\* the part of C24 that is about a VM started on its own
C24_ExitStatusIsArgument ==
    (svc_op = "INTERNAL_STOPVM" /\ vmState = "exited") => exitCode = svc_i1

\* the part of C24 that is about arguments other than 0
C24_NonZeroIsReturned ==
    (svc_op = "INTERNAL_STOPVM" /\ vmState = "returned" /\ svc_i1 # 0)
        => exitCode = svc_i1

\* a host entry point has returned after the stop-VM operation with argument 0
C24_StoppedWithZero ==
    svc_op = "INTERNAL_STOPVM" /\ vmState = "returned" /\ svc_i1 = 0

\* the fast-lookup array holds, from index 0 on, the address + 1 of every
\* non-zero slot of the table in slot order, and 0 in the entries after them
C25_Regenerated(table, ips) ==
    LET act == ActiveIps(table)
    IN  \A k \in BpSlots :
            ips[k] = IF k < Len(act) THEN act[k + 1] + 1 ELSE 0

\* C25: a SET command for slot n and address a stores a+2 in slot n when the
\* byte at a is OPC_EXTEND, a+1 when it is OPC_EXTEND0 and a otherwise, sets
\* the some-breakpoint-active flag, changes no other slot and regenerates the
\* fast-lookup array; a CLEAR command for slot n sets slot n to 0 and changes
\* no other slot
C25_SetAndClear ==
    /\ [][\A n \in BpSlots, a \in CodeAddrs :
             BreakSet(n, a) =>
                 /\ code[a] = "OPC_EXTEND" => db_bp_table'[n] = a + 2
                 /\ code[a] = "OPC_EXTEND0" => db_bp_table'[n] = a + 1
                 /\ code[a] \notin {"OPC_EXTEND", "OPC_EXTEND0"} => db_bp_table'[n] = a
                 /\ db_bp_set' = TRUE
                 /\ \A m \in BpSlots \ {n} : db_bp_table'[m] = db_bp_table[m]
                 /\ C25_Regenerated(db_bp_table', db_current_ips')]_vars
    /\ [][\A n \in BpSlots :
             BreakClear(n) =>
                 /\ db_bp_table'[n] = 0
                 /\ \A m \in BpSlots \ {n} : db_bp_table'[m] = db_bp_table[m]]_vars

\* C25 witness: a slot holds the address two past an OPC_EXTEND byte while
\* another slot holds a breakpoint, and the array matches the table
C25_Witness ==
    \E n \in BpSlots, m \in BpSlots, a \in CodeAddrs :
        /\ n # m
        /\ code[a] = "OPC_EXTEND"
        /\ db_bp_table[n] = a + 2
        /\ db_bp_table[m] # 0
        /\ db_bp_set = TRUE
        /\ C25_Regenerated(db_bp_table, db_current_ips)

\* C26: every hit notice carries the lowest index among the slots that hold
\* the address of the fetched opcode when the notice is sent, however many
\* slots hold that address
C26_LowestSlotReported ==
    [][Len(hits') > Len(hits) =>
          LET j == hits'[Len(hits')]
          IN  /\ Len(hits') = Len(hits) + 1
              /\ db_bp_table'[j] = regs'.ip - 1
              /\ \A k \in BpSlots : db_bp_table'[k] = regs'.ip - 1 => j <= k
    ]_vars

\* C26 witness: two notices were sent for one fetch while two slots held the
\* address of the fetched opcode
C26_Witness ==
    /\ Len(hits) = 2
    /\ fetches = 1
    /\ dbState = "cmdloop"
    /\ loopFrom = "db_checkBreak"
    /\ \E m \in BpSlots, n \in BpSlots :
           m # n /\ db_bp_table[m] = regs.ip - 1 /\ db_bp_table[n] = regs.ip - 1

\* C27: whenever the queue of pending requests is empty, at the start or
\* after consuming checks have drained it, a request that storeSwitchRequest
\* enqueues gets the sequence number 1 and 1 is returned, whatever numbers
\* were handed out before
C27_NumberingRestarts ==
    [][SwReadStep /\ switchRequests = <<>> /\ switchRequests' # <<>> =>
          /\ Len(switchRequests') = 1
          /\ switchRequests'[1].eventNumber = 1
          /\ svc_result' = 1
    ]_vars

\* a consuming check has returned the number 1 and left the queue empty
C27_Drained ==
    svc_op = "GLOBAL_GETEVENT" /\ svc_result = 1 /\ switchRequests = <<>>

\* once a consuming check has returned the number 1 and left the queue empty,
\* no read-switch operation returns 1 again
C27_NoReuse ==
    [](C27_Drained => [](~(svc_op = "SW_READ" /\ svc_result = 1)))

\* C27 witness: a read-switch operation has enqueued the only pending request
\* and returned 1 while a switch is pressed
C27_Witness ==
    /\ svc_op = "SW_READ"
    /\ svc_result = 1
    /\ Len(switchRequests) = 1
    /\ switchRequests[1].eventNumber = 1
    /\ switches # {}

\* a stream is open at index i
C28_Open(i) == i \in StreamSlots /\ streams[i] # "null"

\* what the claim says of one selection of index i1: the previous index is
\* returned and i1 becomes current; an open stream is reused; the symbols
\* stream is opened if it is not open; any other index with no open stream
\* stops the VM through fatalVMError
C28_Selects(i1) ==
    /\ svc_result' = currentStream
    /\ currentStream' = i1
    /\ C28_Open(i1) =>
           /\ streams' = streams
           /\ symOpens' = symOpens
           /\ vmState' = "running"
    /\ (i1 = java_lang_VM_STREAM_SYMBOLS /\ ~C28_Open(i1)) =>
           /\ streams' = [streams EXCEPT ![i1] = "squawk_dynamic.sym"]
           /\ symOpens' = symOpens + 1
           /\ vmState' = "running"
    /\ (i1 # java_lang_VM_STREAM_SYMBOLS /\ ~C28_Open(i1)) =>
           /\ vmState' # "running"
           /\ inFatalVMError' = TRUE
           /\ streams' = streams

\* C28: the select-output-stream operation returns the previously current
\* index and makes the requested index current; an open stream is reused,
\* the symbols stream is opened on its first selection and never again, and
\* any other index with no open stream is a fatal error that stops the VM
C28_SelectStream ==
    /\ [][\A i1 \in StreamArgs, fopenOk \in BOOLEAN, beyond \in Beyond :
             SetStream(i1, fopenOk, beyond) => C28_Selects(i1)]_vars
    /\ [][symOpens' <= 1]_vars

\* the part of C28 about the indexes of the array, when fopen succeeds: the
\* symbols file is opened only while the symbols stream is not open
C28_SelectsKnownIndex ==
    /\ [][\A i1 \in StreamSlots, beyond \in Beyond :
             SetStream(i1, TRUE, beyond) => C28_Selects(i1)]_vars
    /\ [][symOpens' # symOpens => ~C28_Open(java_lang_VM_STREAM_SYMBOLS)]_vars

\* the part of C28 about the numbers that are no index of the array
C28_UnknownIndexIsFatal ==
    [][\A i1 \in StreamArgs \ StreamSlots, fopenOk \in BOOLEAN, beyond \in Beyond :
          SetStream(i1, fopenOk, beyond) => vmState' # "running"]_vars

\* a number that is no index of the array is the current stream of a
\* running VM
C28_WildStreamCurrent ==
    vmState = "running" /\ currentStream \notin StreamSlots

\* the symbols file was opened a second time
C28_SymbolsOpenedAgain == symOpens = 2

\* C29: when trace() returns, ip, fp and sp have the values they had before
\* the call, whatever instruction was decoded and in every build
C29_TraceKeepsRegisters ==
    [][\A threadID \in ThreadIds :
          Trace(threadID, FALSE) => (vmState' = "running" /\ regs' = regs)]_vars

\* C29 witness: in a build without MACROIZE a trace record was written for an
\* instruction of several bytes, which the decoder fetched through the
\* global ip
C29_Witness ==
    /\ ~macroize
    /\ decodeInstruction(decIn).ip > 1
    /\ vmState = "running"
    /\ \E k \in 1..Len(traceOut) : traceOut[k].kind = "*TRACE*"

\* the positions of the trace records in the trace file
C30_Records == {k \in 1..Len(traceOut) : traceOut[k].kind = "*TRACE*"}
\* the trace records in front of position k
C30_Before(k) == {p \in C30_Records : p < k}
\* the position of the trace record preceding the one at k
C30_Preceding(k) == CHOOSE p \in C30_Before(k) : \A q \in C30_Before(k) : q <= p

C31_Short == NullTerminated(chain) /\ chain.len <= SuspiciousDepth
C31_Outcome ==
    /\ walk.n <= SuspiciousDepth + 1
    /\ (walk.entry \in {"calculateCallDepth", "traceFrames"} /\ C31_Short) =>
          /\ vmState = "running"
          /\ walk.by = "trace"
          /\ walk.fn = "none" => (walk.ended = "returned" /\ walk.n = chain.len)
    /\ (walk.entry # "none" /\ walk.fn = "none" /\ ~C31_Short) =>
          /\ walk.ended = "fatal"
          /\ vmState \in {"exited", "returned"}
          /\ exitCode # 0
C31_WalkTerminates ==
    /\ []C31_Outcome
    /\ (walk.fn # "none") ~> (walk.fn = "none")
C31_Witness ==
    /\ walk.entry = "calculateCallDepth"
    /\ ~NullTerminated(chain)
    /\ walk.ended = "fatal"
    /\ vmState # "running"
C31_WitnessWalked ==
    /\ walk.entry = "traceFrames"
    /\ chain = [len |-> SuspiciousDepth, back |-> 0]
    /\ walk.ended = "returned"

\* C32: with debugging enabled, once the VM has stopped (by the stop-VM
\* operation, a fatal error or an error of the debug protocol) the exit
\* message *DEBUG*:X has been sent exactly once, as the last message to the
\* debugger
C32_ExitMessages == SelectSeq(stopLog, LAMBDA step : step = "db_send_exit")
C32_ExitMessageOnce ==
    (db_debug_enabled /\ vmState \in {"exited", "returned"}) =>
        Len(C32_ExitMessages) = 1
C32_StoppedByStopVM ==
    (db_debug_enabled /\ vmState \in {"exited", "returned"} /\ stopLog[1] # "exit") =>
        /\ Len(C32_ExitMessages) = 1
        /\ stopLog[Len(stopLog) - 1] = "db_send_exit"

\* C33: for every registry newBuffer and freeBuffer can build, freeBuffers
\* comes to an end without a fatal error, calls free() exactly once for each
\* registered buffer and leaves BufferCount = 0; a VM that stops has done so
C33_TimesReleased(released, b) == Len(SelectSeq(released, LAMBDA x : x = b))
C33_ReleasesAll(bufs, count) ==
    LET r == freeBuffers(bufs, count)
    IN  /\ ~r.nested
        /\ r.BufferCount = 0
        /\ Len(r.released) = count
        /\ \A k \in 0..(count - 1) : C33_TimesReleased(r.released, bufs[k]) = 1
C33_FreeBuffersReleasesAll ==
    /\ [](vmState = "running" => C33_ReleasesAll(Buffers, BufferCount))
    /\ [][(vmState = "running" /\ vmState' # "running") =>
            /\ BufferCount' = freeBuffers(Buffers, BufferCount).BufferCount
            /\ BufferCount' = 0]_vars
C33_Witness ==
    /\ vmState \in {"exited", "returned"}
    /\ Len(bufCall.before) >= 2
    /\ stopLog[2] = "freeBuffers"
    /\ BufferCount = 0

\* C34: the sequence numbers of the queued requests increase strictly from
\* the head of the queue to its tail, so no two queued requests have the
\* same number and a token names at most one of them
C34_Numbers == [i \in 1..Len(switchRequests) |-> switchRequests[i].eventNumber]
C34_StrictlyIncreasing ==
    /\ \A i \in 1..(Len(switchRequests) - 1) : C34_Numbers[i] < C34_Numbers[i + 1]
    /\ \A token \in 1..(MaxEvent + 1) :
          Cardinality({i \in 1..Len(switchRequests) : C34_Numbers[i] = token}) <= 1
C34_Witness ==
    /\ Len(switchRequests) >= 2
    /\ C34_Numbers[2] > C34_Numbers[1] + 1
    /\ svc_result = C34_Numbers[1] + 1

\* C35: from db_prepare on, through every SET and CLEAR command, db_bp_set
\* is TRUE exactly when some slot of db_bp_table holds a non-zero address
C35_SomeSlotSet == \E i \in BpSlots : db_bp_table[i] # 0
C35_FlagIffSlotSet ==
    (db_debug_enabled /\ dbState # "boot") => (db_bp_set <=> C35_SomeSlotSet)
C35_FlagCoversSlots ==
    (db_debug_enabled /\ dbState # "boot") => (C35_SomeSlotSet => db_bp_set)

\* C36: for one fetched opcode db_checkBreak sends at most one hit notice
\* and enters the command loop at most once, whatever db_bp_table holds and
\* whatever SET and CLEAR commands the debugger sends in that command loop
C36_AtMostOneHit == db_debug_enabled => Len(hits) <= 1

\* C37: every call of fatalVMError leads to the exit of the process or to
\* the return to the embedding host, also when a further fatal error is
\* raised while stopVM is releasing the buffers (a process ended by free()
\* counts as ended)
C37_Ended == vmState \in {"exited", "returned", "aborted"}
C37_FatalTerminates == (stop.calls > 0) ~> C37_Ended
C37_TerminatesUndisturbed ==
    (stop.pc # "none" /\ stop.signals = 0) ~>
        (vmState \in {"exited", "returned"} \/ stop.signals > 0)

\* C38: in every run the embedding host starts, a run that follows a run
\* ended by a fatal error included, the first fatalVMError call prints its
\* message and is not reported as a recursive call
C38_FirstLine == errlog'[Len(errlog) + 1]
C38_FirstFatalReported ==
    [][(vmState = "running" /\ vmState' = "returned" /\ errlog' # errlog) =>
          C38_FirstLine # "Recursive call to fatalVMError"]_vars
C38_FirstRunReported ==
    [][(hostRuns = 1 /\ vmState = "running" /\ errlog' # errlog) =>
          C38_FirstLine # "Recursive call to fatalVMError"]_vars

\* C39: a timed wait whose clock plus requested time does not overflow
\* returns in the end, whatever time is requested, while the clock advances
\* and no queued mask is asserted
C39_WaitEnds == (ioPc = "waiting") ~> (ioPc = "idle")
C39_FutureDeadlineEnds == (ioPc = "waiting" /\ target < maxValue) ~> (ioPc = "idle")

\* C40: when the four bytes at 0x10A0000 are not the magic word, loadFlash
\* makes no call that writes the flash and returns 0, in the application-load
\* mode and in the VM-update mode
C40_NoMagicNoWrite ==
    (flashOut.boot = "loader" /\ ~HasMagic(flashIn.mem)) =>
        (flashOut.calls = <<>> /\ flashOut.result = 0)
C40_NoMagicReturnsZero ==
    (flashOut.boot = "loader" /\ ~HasMagic(flashIn.mem)) => flashOut.result = 0
C40_MagicLoads ==
    (flashOut.boot = "loader" /\ HasMagic(flashIn.mem)) => flashOut.calls # <<>>

=============================================================================
